---- MODULE Spec2Model ----
(***************************************************************************)
(* iSlogger: the buffered writer (buffer.go), the filtering handler        *)
(* (filtered_handler) and the dual-stream Logger.                          *)
(*                                                                         *)
(* Bytes are abstracted to tokens: a serialized record is a sequence of    *)
(* tokens, the level field written by the slog handler is one token        *)
(* ("level=INFO" in the text encoding, "\"level\":\"INFO\"" in JSON) and   *)
(* every other token is one unit of message text.  strings.Contains on a   *)
(* level marker is membership of the marker token in the sequence.         *)
(***************************************************************************)
EXTENDS Integers, Sequences, FiniteSets, TLC

(***************************************************************************)
(* slog levels                                                             *)
(***************************************************************************)
LevelDebug == -4
LevelInfo == 0
LevelWarn == 4
LevelError == 8
Levels == {LevelDebug, LevelInfo, LevelWarn, LevelError}

(***************************************************************************)
(* Bounds of the model                                                     *)
(***************************************************************************)
MaxWrites == 2
MaxOps == 2
MaxClock == 2
MaxAttrs == 2
MaxFiles == 2
MaxAge == 3

(***************************************************************************)
(* Serialized records                                                      *)
(***************************************************************************)
TextMarker(l) ==
  IF l = LevelDebug THEN "level=DEBUG"
  ELSE IF l = LevelInfo THEN "level=INFO"
  ELSE IF l = LevelWarn THEN "level=WARN"
  ELSE "level=ERROR"

JSONMarker(l) ==
  IF l = LevelDebug THEN "\"level\":\"DEBUG\""
  ELSE IF l = LevelInfo THEN "\"level\":\"INFO\""
  ELSE IF l = LevelWarn THEN "\"level\":\"WARN\""
  ELSE "\"level\":\"ERROR\""

\* message texts a caller may log; the last one quotes a level marker
Messages == { <<>>, <<"m">>, <<"m", "m">>, <<"level=ERROR">> }

\* the handler's output for a record: the level field, then the message
Format(json, level, msg) ==
  <<IF json THEN JSONMarker(level) ELSE TextMarker(level)>> \o msg

\* the level the handler wrote into the level field of a serialized record
RecordLevel(p) ==
  CHOOSE l \in Levels : p[1] = TextMarker(l) \/ p[1] = JSONMarker(l)

\* the serialized records written to a sink in this model
Payloads ==
  { Format(FALSE, LevelInfo, <<>>),
    Format(TRUE, LevelInfo, <<"m", "m">>),
    Format(FALSE, LevelWarn, <<"m">>),
    Format(TRUE, LevelError, <<"m">>),
    Format(FALSE, LevelInfo, <<"level=ERROR">>) }

Contains(p, tok) == \E i \in 1..Len(p) : p[i] = tok

RECURSIVE Flatten(_)
Flatten(chunks) ==
  IF chunks = <<>> THEN <<>> ELSE Head(chunks) \o Flatten(Tail(chunks))

(***************************************************************************)
(* bufferedWriter                                                          *)
(***************************************************************************)
VARIABLES
  size,           \* bw.size
  flushInterval,  \* bw.flushInterval
  flushOnLevel,   \* bw.flushOnLevel
  buffer,         \* bw.buffer
  dest,           \* bw.writer: the writes it accepted, one chunk per write
  stopClosed,     \* bw.stopChan is closed
  once,           \* bw.once has run its function
  timerPc,        \* the autoFlush goroutine: "none", "running", "exited"
  wpc,            \* writer goroutines: "idle" or "Write" (called, not yet in)
  warg,           \* the payload of the pending Write
  cpc,            \* the closing goroutine: "idle" or "Flush" (after once.Do)
  accepted,       \* history: payloads taken by Write, in lock order
  last,           \* history: the call that returned last
  hist            \* history: counters and flags of calls made so far;
                  \* closes counts the Close calls returned, up to two

sinkVars == <<size, flushInterval, flushOnLevel, buffer, dest, stopClosed,
              once, timerPc, wpc, warg, cpc, accepted, last, hist>>

(***************************************************************************)
(* Logger (logger.go), its handlers and the files it writes                *)
(***************************************************************************)
VARIABLES
  config,         \* l.config: Debug, JSONFormat, Filters
  infoLogger,     \* l.infoLogger: handler level, encoding, file written
  errorLogger,    \* l.errorLogger
  infoFile,       \* l.infoFile
  errorFile,      \* l.errorFile
  currentDate,    \* l.currentDate
  mu,             \* l.mu: number of goroutines holding the read lock
  clock,          \* time.Now()
  files,          \* the log directory: file name -> records appended
  closed,         \* the file handles that have been closed
  stdout,         \* records written to os.Stdout
  stderr,         \* records written to os.Stderr
  inits,          \* number of initLoggers calls made (names the handles)
  lpc,            \* logging goroutines: position inside the log call
  call,           \* the log call a goroutine is executing
  rateLimit,      \* checkRateLimit's local copy of the map entry
  fatal,          \* the runtime has aborted the process
  ops,            \* history: number of Logger methods called so far
  lastOp,         \* history: the last SetLevel, RotateNow or Close, its result
  log             \* history: one entry per log call, in call order

loggerVars == <<config, infoLogger, errorLogger, infoFile, errorFile,
                currentDate, mu, clock, files, closed, stdout, stderr, inits,
                lpc, call, rateLimit, fatal, ops, lastOp, log>>

(***************************************************************************)
(* One record put through filteredHandler.Handle on its own                *)
(***************************************************************************)
VARIABLES
  record,         \* the filter configuration and the slog.Record handled
  emitted,        \* what Handle passed to the inner handler
  handled,        \* Handle has returned
  derived         \* the handler made by WithAttrs: the attributes it holds

filterVars == <<record, emitted, handled, derived>>

(***************************************************************************)
(* The log directory and one retention sweep over it (cleanup.go)          *)
(***************************************************************************)
VARIABLES
  logDir,         \* l.config.LogDir: its entries, by file name
  retentionDays,  \* l.config.RetentionDays
  sweep,          \* history: the sweep made, what it removed and logged
  logFiles,       \* the list returned by GetLogFiles
  loggerClosed    \* history: Logger.Close has returned

sweepVars == <<logDir, retentionDays, sweep, logFiles, loggerClosed>>

(***************************************************************************)
(* Config values under construction by the With... builders (config.go)    *)
(***************************************************************************)
VARIABLES
  configs,        \* the Config values the program holds, by variable name
  maps,           \* heap: the maps made for FieldFilters and RateLimits
  arrays,         \* heap: the backing arrays of Conditions and RegexFilters
  built           \* history: the last builder call, with its outcome

builderVars == <<configs, maps, arrays, built>>

(***************************************************************************)
(* The process-wide logger slot and the global functions (global.go)       *)
(***************************************************************************)
VARIABLES
  defaultLogger,  \* the slot: 0 for nil, else the number of a logger
  loggers,        \* the loggers made by New, each with its Close calls
  globalCall      \* history: the last global function call and its result

globalVars == <<defaultLogger, loggers, globalCall>>

(***************************************************************************)
(* The goroutines of a program and the locks they take: the Logger's       *)
(* l.mu, the sink's bw.mu and globalMu of global.go                        *)
(***************************************************************************)
VARIABLES
  threads,        \* per goroutine: the call it is in and its position
  locks           \* the state of l.mu, bw.mu and globalMu

lockVars == <<threads, locks>>

\* the variables of the function-level specifications
fnVars == <<filterVars, sweepVars, builderVars, globalVars, lockVars>>

vars == <<sinkVars, loggerVars, fnVars>>

\* no record is being put through a handler on its own
NoRecord ==
  /\ record = <<>>
  /\ emitted = <<>>
  /\ handled = FALSE
  /\ derived = <<>>

\* no Config is under construction and the logger slot is not in use
NoBuilder ==
  /\ configs = <<>>
  /\ maps = <<>>
  /\ arrays = <<>>
  /\ built = <<>>

NoGlobal ==
  /\ defaultLogger = 0
  /\ loggers = <<>>
  /\ globalCall = <<>>

\* no goroutine is followed through its lock operations
NoLocks ==
  /\ threads = <<>>
  /\ locks = <<>>

\* no log directory is being swept
NoSweep ==
  /\ logDir = <<>>
  /\ retentionDays = 0
  /\ sweep = <<>>
  /\ logFiles = <<>>
  /\ loggerClosed = FALSE

\* no Logger has been constructed
NoLogger ==
  /\ config = <<>>
  /\ infoLogger = <<>>
  /\ errorLogger = <<>>
  /\ infoFile = <<>>
  /\ errorFile = <<>>
  /\ currentDate = 0
  /\ mu = 0
  /\ clock = 0
  /\ files = <<>>
  /\ closed = {}
  /\ stdout = <<>>
  /\ stderr = <<>>
  /\ inits = 0
  /\ lpc = <<>>
  /\ call = <<>>
  /\ rateLimit = <<>>
  /\ fatal = FALSE
  /\ ops = 0
  /\ lastOp = <<>>
  /\ log = <<>>

Writers == {"w1", "w2"}

Sizes == {0 - 1, 0, 3}
Intervals == {0, 1}

NoCall == [op |-> "none", n |-> 0, err |-> FALSE]

\* newBufferedWriter that starts autoFlush for every positive interval, also
\* when buffering is disabled
newBufferedWriter_TimerAlways(sz, fi, fl) ==
  /\ size = IF sz <= 0 THEN 0 ELSE sz
  /\ flushInterval = IF sz <= 0 THEN 0 ELSE fi
  /\ flushOnLevel = IF sz <= 0 THEN LevelInfo ELSE fl
  /\ buffer = <<>>
  /\ dest = <<>>
  /\ stopClosed = FALSE
  /\ once = FALSE
  /\ timerPc = IF fi > 0 THEN "running" ELSE "none"

\* newBufferedWriter that never starts the autoFlush goroutine
newBufferedWriter_NoTimer(sz, fi, fl) ==
  /\ size = IF sz <= 0 THEN 0 ELSE sz
  /\ flushInterval = IF sz <= 0 THEN 0 ELSE fi
  /\ flushOnLevel = IF sz <= 0 THEN LevelInfo ELSE fl
  /\ buffer = <<>>
  /\ dest = <<>>
  /\ stopClosed = FALSE
  /\ once = FALSE
  /\ timerPc = "none"

\* newBufferedWriter(writer, size, flushInterval, flushOnLevel)
newBufferedWriter(sz, fi, fl) ==
  /\ size = IF sz <= 0 THEN 0 ELSE sz
  /\ flushInterval = IF sz <= 0 THEN 0 ELSE fi
  /\ flushOnLevel = IF sz <= 0 THEN LevelInfo ELSE fl
  /\ buffer = <<>>
  /\ dest = <<>>
  /\ stopClosed = FALSE
  /\ once = FALSE
  /\ timerPc = IF sz > 0 /\ fi > 0 THEN "running" ELSE "none"

\* bufferedWriter.shouldFlushImmediately
shouldFlushImmediately(p, fl) ==
  IF fl = LevelDebug THEN TRUE
  ELSE IF fl = LevelInfo THEN
    \/ Contains(p, "level=INFO") \/ Contains(p, "level=WARN")
    \/ Contains(p, "level=ERROR")
    \/ Contains(p, "\"level\":\"INFO\"") \/ Contains(p, "\"level\":\"WARN\"")
    \/ Contains(p, "\"level\":\"ERROR\"")
  ELSE IF fl = LevelWarn THEN
    \/ Contains(p, "level=WARN") \/ Contains(p, "level=ERROR")
    \/ Contains(p, "\"level\":\"WARN\"") \/ Contains(p, "\"level\":\"ERROR\"")
  ELSE IF fl = LevelError THEN
    \/ Contains(p, "level=ERROR") \/ Contains(p, "\"level\":\"ERROR\"")
  ELSE FALSE

\* flushLocked with the buffer reset before the error check
flushLocked_ResetOnError(buf, dst, ok) ==
  IF Len(buf) = 0 THEN [buffer |-> buf, dest |-> dst, err |-> FALSE]
  ELSE IF ~ok THEN [buffer |-> <<>>, dest |-> dst, err |-> TRUE]
  ELSE [buffer |-> <<>>, dest |-> Append(dst, buf), err |-> FALSE]

\* bufferedWriter.flushLocked; ok: the destination accepts the write
flushLocked(buf, dst, ok) ==
  IF Len(buf) = 0 THEN [buffer |-> buf, dest |-> dst, err |-> FALSE]
  ELSE IF ~ok THEN [buffer |-> buf, dest |-> dst, err |-> TRUE]
  ELSE [buffer |-> <<>>, dest |-> Append(dst, buf), err |-> FALSE]

\* the body of Write with the size test written > instead of >=
WriteLocked_StrictSize(sz, fl, buf, dst, p, ok) ==
  IF sz = 0 THEN
    IF ok THEN [buffer |-> buf, dest |-> Append(dst, p), n |-> Len(p),
                err |-> FALSE, took |-> TRUE]
    ELSE [buffer |-> buf, dest |-> dst, n |-> 0, err |-> TRUE, took |-> FALSE]
  ELSE
    LET sfi == shouldFlushImmediately(p, fl)
        b1 == buf \o p
    IN IF Len(b1) > sz \/ sfi
       THEN LET r == flushLocked(b1, dst, ok)
            IN [buffer |-> r.buffer, dest |-> r.dest, n |-> Len(p),
                err |-> r.err, took |-> TRUE]
       ELSE [buffer |-> b1, dest |-> dst, n |-> Len(p), err |-> FALSE,
             took |-> TRUE]

\* the body of bufferedWriter.Write, run with bw.mu held
WriteLocked(sz, fl, buf, dst, p, ok) ==
  IF sz = 0 THEN
    IF ok THEN [buffer |-> buf, dest |-> Append(dst, p), n |-> Len(p),
                err |-> FALSE, took |-> TRUE]
    ELSE [buffer |-> buf, dest |-> dst, n |-> 0, err |-> TRUE, took |-> FALSE]
  ELSE
    LET sfi == shouldFlushImmediately(p, fl)
        b1 == buf \o p
    IN IF Len(b1) >= sz \/ sfi
       THEN LET r == flushLocked(b1, dst, ok)
            IN [buffer |-> r.buffer, dest |-> r.dest, n |-> Len(p),
                err |-> r.err, took |-> TRUE]
       ELSE [buffer |-> b1, dest |-> dst, n |-> Len(p), err |-> FALSE,
             took |-> TRUE]

InitSink ==
  /\ \E sz \in Sizes, fi \in Intervals, fl \in Levels :
       newBufferedWriter(sz, fi, fl)
  /\ wpc = [w \in Writers |-> "idle"]
  /\ warg = [w \in Writers |-> <<>>]
  /\ cpc = "idle"
  /\ accepted = <<>>
  /\ last = NoCall
  /\ hist = [writes |-> 0, failed |-> FALSE, closeOK |-> FALSE,
             lateWrite |-> FALSE, closes |-> 0, stops |-> 0]
  /\ NoLogger
  /\ NoRecord
  /\ NoSweep
  /\ NoBuilder
  /\ NoGlobal
  /\ NoLocks

\* a goroutine calls bw.Write(p) and waits for bw.mu; the goroutines are
\* interchangeable, so the second one is used only while the first waits
WriteCall(w, p) ==
  /\ wpc[w] = "idle"
  /\ w = "w2" => wpc["w1"] = "Write"
  /\ hist.writes < MaxWrites
  /\ wpc' = [wpc EXCEPT ![w] = "Write"]
  /\ warg' = [warg EXCEPT ![w] = p]
  /\ hist' = [hist EXCEPT !.writes = @ + 1,
                          !.lateWrite = @ \/ hist.closeOK]
  /\ UNCHANGED <<size, flushInterval, flushOnLevel, buffer, dest, stopClosed,
                 once,
                 timerPc, cpc, accepted, last>>
  /\ UNCHANGED <<loggerVars, fnVars>>

\* bufferedWriter.Write: the goroutine holds bw.mu from entry to return
Write(w, ok) ==
  /\ wpc[w] = "Write"
  /\ LET r == WriteLocked(size, flushOnLevel, buffer, dest, warg[w], ok)
     IN /\ buffer' = r.buffer
        /\ dest' = r.dest
        /\ accepted' = IF r.took THEN Append(accepted, warg[w]) ELSE accepted
        /\ last' = [op |-> "Write", n |-> r.n, err |-> r.err]
        /\ hist' = [hist EXCEPT !.failed = @ \/ r.err]
  /\ wpc' = [wpc EXCEPT ![w] = "idle"]
  /\ warg' = [warg EXCEPT ![w] = <<>>]
  /\ UNCHANGED <<size, flushInterval, flushOnLevel, stopClosed, once, timerPc,
                 cpc>>
  /\ UNCHANGED <<loggerVars, fnVars>>

\* bufferedWriter.Flush, called by the application
Flush(ok) ==
  /\ LET r == flushLocked(buffer, dest, ok)
     IN /\ buffer' = r.buffer
        /\ dest' = r.dest
        /\ last' = [op |-> "Flush", n |-> 0, err |-> r.err]
        /\ hist' = [hist EXCEPT !.failed = @ \/ r.err]
  /\ UNCHANGED <<size, flushInterval, flushOnLevel, stopClosed, once, timerPc,
                 wpc,
                 warg, cpc, accepted>>
  /\ UNCHANGED <<loggerVars, fnVars>>

\* Close that closes bw.stopChan at every call, without bw.once; the second
\* close of the channel panics
CloseOnce_EveryCall ==
  /\ cpc = "idle"
  /\ hist.stops < 2
  /\ once' = TRUE
  /\ IF size > 0
     THEN /\ stopClosed' = TRUE
          /\ hist' = [hist EXCEPT !.stops = @ + 1]
     ELSE UNCHANGED <<stopClosed, hist>>
  /\ cpc' = "Flush"
  /\ UNCHANGED <<size, flushInterval, flushOnLevel, buffer, dest, timerPc,
                 wpc, warg, accepted, last>>
  /\ UNCHANGED <<loggerVars, fnVars>>

\* bufferedWriter.Close, first half: bw.once.Do(close(bw.stopChan))
CloseOnce ==
  /\ cpc = "idle"
  /\ once' = TRUE
  /\ IF ~once /\ size > 0
     THEN /\ stopClosed' = TRUE
          /\ hist' = [hist EXCEPT !.stops = @ + 1]
     ELSE UNCHANGED <<stopClosed, hist>>
  /\ cpc' = "Flush"
  /\ UNCHANGED <<size, flushInterval, flushOnLevel, buffer, dest, timerPc,
                 wpc, warg, accepted, last>>
  /\ UNCHANGED <<loggerVars, fnVars>>

\* Close that only stops the timer and returns nil
CloseFlush_NoFlush(ok) ==
  /\ cpc = "Flush"
  /\ last' = [op |-> "Close", n |-> 0, err |-> FALSE]
  /\ hist' = [hist EXCEPT !.closeOK = TRUE,
                          !.closes = IF @ < 2 THEN @ + 1 ELSE @]
  /\ cpc' = "idle"
  /\ UNCHANGED <<size, flushInterval, flushOnLevel, buffer, dest, stopClosed,
                 once,
                 timerPc, wpc, warg, accepted>>
  /\ UNCHANGED <<loggerVars, fnVars>>

\* bufferedWriter.Close, second half: return bw.Flush()
CloseFlush(ok) ==
  /\ cpc = "Flush"
  /\ LET r == flushLocked(buffer, dest, ok)
     IN /\ buffer' = r.buffer
        /\ dest' = r.dest
        /\ last' = [op |-> "Close", n |-> 0, err |-> r.err]
        /\ hist' = [hist EXCEPT !.closeOK = @ \/ ~r.err,
                                !.closes = IF @ < 2 THEN @ + 1 ELSE @,
                                !.failed = @ \/ r.err]
  /\ cpc' = "idle"
  /\ UNCHANGED <<size, flushInterval, flushOnLevel, stopClosed, once, timerPc,
                 wpc,
                 warg, accepted>>
  /\ UNCHANGED <<loggerVars, fnVars>>

\* autoFlush whose tick throws away what a failed flush left in the buffer
autoFlushTick_DropRetained(ok) ==
  /\ timerPc = "running"
  /\ LET r == IF hist.failed
              THEN [buffer |-> <<>>, dest |-> dest, err |-> FALSE]
              ELSE flushLocked(buffer, dest, ok)
     IN /\ buffer' = r.buffer
        /\ dest' = r.dest
        /\ hist' = [hist EXCEPT !.failed = @ \/ r.err]
  /\ UNCHANGED <<size, flushInterval, flushOnLevel, stopClosed, once, timerPc,
                 wpc,
                 warg, cpc, accepted, last>>
  /\ UNCHANGED <<loggerVars, fnVars>>

\* bufferedWriter.autoFlush: case <-ticker.C: bw.Flush()
autoFlushTick(ok) ==
  /\ timerPc = "running"
  /\ LET r == flushLocked(buffer, dest, ok)
     IN /\ buffer' = r.buffer
        /\ dest' = r.dest
        /\ hist' = [hist EXCEPT !.failed = @ \/ r.err]
  /\ UNCHANGED <<size, flushInterval, flushOnLevel, stopClosed, once, timerPc,
                 wpc,
                 warg, cpc, accepted, last>>
  /\ UNCHANGED <<loggerVars, fnVars>>

\* autoFlush whose stop case does not return: the loop goes on
autoFlushStop_NoReturn ==
  /\ timerPc = "running"
  /\ stopClosed
  /\ UNCHANGED sinkVars
  /\ UNCHANGED <<loggerVars, fnVars>>

\* bufferedWriter.autoFlush: case <-bw.stopChan: return
autoFlushStop ==
  /\ timerPc = "running"
  /\ stopClosed
  /\ timerPc' = "exited"
  /\ UNCHANGED <<size, flushInterval, flushOnLevel, buffer, dest, stopClosed,
                 once,
                 wpc, warg, cpc, accepted, last, hist>>
  /\ UNCHANGED <<loggerVars, fnVars>>

NextSink ==
  \/ \E w \in Writers, p \in Payloads : WriteCall(w, p)
  \/ \E w \in Writers, ok \in BOOLEAN : Write(w, ok)
  \/ \E ok \in BOOLEAN : Flush(ok)
  \/ CloseOnce
  \/ \E ok \in BOOLEAN : CloseFlush(ok)
  \/ \E ok \in BOOLEAN : autoFlushTick(ok)
  \/ autoFlushStop

SpecSink == InitSink /\ [][NextSink]_vars

\* The sink with an application that only writes, a destination that accepts
\* every write, and the ticker of autoFlush firing again and again: the
\* goroutine is scheduled, and gets bw.mu, whenever it has something to flush.
NextTimer ==
  \/ \E w \in Writers, p \in Payloads : WriteCall(w, p)
  \/ \E w \in Writers : Write(w, TRUE)
  \/ autoFlushTick(TRUE)

SpecTimer == InitSink /\ [][NextTimer]_vars /\ WF_vars(autoFlushTick(TRUE))

(***************************************************************************)
(* Claims about the bufferedWriter, checked under SpecSink                 *)
(***************************************************************************)
\* the step is the body of a Write by goroutine w
IsWrite(w) == wpc[w] = "Write" /\ wpc'[w] = "idle"

\* the step is the final flush of a Close
IsCloseFlush == cpc = "Flush" /\ cpc' = "idle"

\* the step is an application call of Flush
IsFlush == \E ok \in BOOLEAN : Flush(ok)

\* C1: buffering sink without timer; while the cumulative size of the Writes
\* stays strictly below capacity and all records are below the flush-on-level
\* threshold, the destination receives bytes only by a Flush or a Close.
C1_BufferingInvariant ==
  [][ ( /\ size > 0
        /\ flushInterval = 0
        /\ Len(Flatten(accepted')) < size
        /\ \A i \in 1..Len(accepted') :
             RecordLevel(accepted'[i]) < flushOnLevel
        /\ dest' # dest )
      => IsFlush \/ IsCloseFlush ]_vars

\* C2: size trigger; a Write that makes the accumulated length reach or
\* exceed capacity and returns no error leaves the buffer empty and every byte
\* accepted so far, that payload included, in the destination.
C2_SizeTrigger ==
  [][ \A w \in Writers :
        ( /\ IsWrite(w)
          /\ size > 0
          /\ Len(buffer) + Len(warg[w]) >= size
          /\ ~last'.err )
        => /\ buffer' = <<>>
           /\ Flatten(dest') = Flatten(accepted')
           /\ accepted' = Append(accepted, warg[w]) ]_vars

\* C2 witness: two Writes below the level threshold accumulated to capacity
\* and were flushed together by the second one.
C2_Witness ==
  /\ size > 0
  /\ last.op = "Write" /\ ~last.err
  /\ Len(accepted) = 2
  /\ ~shouldFlushImmediately(accepted[1], flushOnLevel)
  /\ ~shouldFlushImmediately(accepted[2], flushOnLevel)
  /\ buffer = <<>>
  /\ dest = << accepted[1] \o accepted[2] >>

\* C3: level trigger; a Write of a record below the flush-on-level threshold
\* that does not fill the buffer leaves the destination unchanged, and a Write
\* of a record at or above the threshold that returns no error puts the
\* earlier buffered bytes followed by the new record into the destination.
C3_LevelTrigger ==
  [][ \A w \in Writers :
        ( IsWrite(w) /\ size > 0 ) =>
          /\ ( /\ RecordLevel(warg[w]) < flushOnLevel
               /\ Len(buffer) + Len(warg[w]) < size )
             => dest' = dest
          /\ ( RecordLevel(warg[w]) >= flushOnLevel /\ ~last'.err )
             => /\ dest' = Append(dest, buffer \o warg[w])
                /\ buffer' = <<>> ]_vars

\* C4: Close performs a final flush; when it returns success the buffer is
\* empty and every byte accepted before is in the destination, and when the
\* final flush fails Close returns the error and the data stays buffered.
C4_CloseFinalFlush ==
  [][ IsCloseFlush =>
        /\ last'.op = "Close"
        /\ ~last'.err => /\ buffer' = <<>>
                         /\ Flatten(dest') = Flatten(accepted)
        /\ last'.err => /\ buffer # <<>>
                        /\ buffer' = buffer
                        /\ dest' = dest ]_vars

\* C4 witness: one buffered payload, delivered by a successful Close.
C4_Witness ==
  /\ size > 0
  /\ last.op = "Close" /\ ~last.err
  /\ Len(accepted) = 1
  /\ ~shouldFlushImmediately(accepted[1], flushOnLevel)
  /\ Len(accepted[1]) < size
  /\ ~hist.failed
  /\ buffer = <<>>
  /\ dest = << accepted[1] >>

\* C5: a failed destination write is returned to the caller of Flush, or of
\* the Write that triggered the flush, and leaves buffer and destination as
\* they were; a later Flush that succeeds hands exactly the buffered bytes to
\* the destination and empties the buffer.
C5_FlushFailureKeepsData ==
  [][ /\ ( IsFlush /\ last'.err )
         => buffer' = buffer /\ dest' = dest /\ buffer # <<>>
      /\ \A w \in Writers :
           ( IsWrite(w) /\ size > 0 /\ last'.err )
           => buffer' = buffer \o warg[w] /\ dest' = dest
      /\ ( IsFlush /\ ~last'.err /\ buffer # <<>> )
         => dest' = Append(dest, buffer) /\ buffer' = <<>>
      /\ ( hist'.failed /\ ~hist.failed )
         => last'.err \/ (\E ok \in BOOLEAN : autoFlushTick(ok)) ]_vars

\* C5 witness: a flush failed, and a later Flush delivered the retained bytes.
C5_Witness ==
  /\ size > 0
  /\ hist.failed
  /\ last.op = "Flush" /\ ~last.err
  /\ Len(accepted) = 1
  /\ buffer = <<>>
  /\ dest = << accepted[1] >>

\* C6: one Close concurrent with Writes; once Close has returned success and
\* every Write called before that has returned, with no destination failure,
\* no accepted byte is left in the buffer.
C6_CloseConcurrentWithWrites ==
  ( /\ hist.closeOK
    /\ cpc = "idle"
    /\ ~hist.lateWrite
    /\ ~hist.failed
    /\ \A w \in Writers : wpc[w] = "idle" )
  => /\ buffer = <<>>
     /\ Flatten(dest) = Flatten(accepted)

(***************************************************************************)
(* Logger: filter configuration (filters.go, config.go)                    *)
(***************************************************************************)
\* ticks of the clock per calendar day
DayTicks == 2

Keys == {"user", "password"}

\* the log calls made in this model: level, message, attributes
LogCalls ==
  { [level |-> LevelDebug, msg |-> <<"m">>, attrs |-> <<>>],
    [level |-> LevelInfo, msg |-> <<"level=ERROR">>, attrs |-> <<>>],
    [level |-> LevelWarn, msg |-> <<"m">>,
     attrs |-> <<[key |-> "password", value |-> <<"secret">>]>>],
    [level |-> LevelError, msg |-> <<"m">>, attrs |-> <<>>] }

\* the zero time.Time: further in the past than any period
ZeroTime == 0 - 100

NoLimit == [set |-> FALSE, MaxCount |-> 0, Period |-> 0, counter |-> 0,
            lastReset |-> ZeroTime]

\* DefaultFilterConfig()
DefaultFilterConfig ==
  [Conditions |-> <<>>,
   FieldFilters |-> [k \in Keys |-> "none"],
   RegexFilters |-> <<>>,
   RateLimits |-> [l \in Levels |-> NoLimit]]

\* Config.WithRateLimit(level, maxCount, period)
WithRateLimit(c, level, maxCount, period) ==
  [c EXCEPT !.RateLimits[level] =
     [set |-> TRUE, MaxCount |-> maxCount, Period |-> period, counter |-> 0,
      lastReset |-> ZeroTime]]

\* Config.WithFieldMask(key, mask): MaskFieldFilter
WithFieldMask(c, key) == [c EXCEPT !.FieldFilters[key] = "mask"]

\* Config.WithFieldRedaction(key): RedactFieldFilter
WithFieldRedaction(c, key) == [c EXCEPT !.FieldFilters[key] = "redact"]

\* Config.WithLevelCondition(minLevel)
WithLevelCondition(c, minLevel) ==
  [c EXCEPT !.Conditions = Append(@, [kind |-> "level", min |-> minLevel,
                                      sub |-> "", key |-> "", value |-> <<>>])]

\* Config.WithMessageContainsCondition(substring)
WithMessageContainsCondition(c, substring) ==
  [c EXCEPT !.Conditions = Append(@, [kind |-> "msg", min |-> 0,
                                      sub |-> substring, key |-> "",
                                      value |-> <<>>])]

\* Config.WithAttributeCondition(key, value)
WithAttributeCondition(c, k, v) ==
  [c EXCEPT !.Conditions = Append(@, [kind |-> "attr", min |-> 0, sub |-> "",
                                      key |-> k, value |-> v])]

\* Config.WithRegexFilter(pattern, replacement); a pattern is the set of its
\* alternatives, each a non-empty sequence of tokens
WithRegexFilter(c, pattern, replacement) ==
  [c EXCEPT !.RegexFilters = Append(@, [Pattern |-> pattern,
                                        Replacement |-> replacement])]

\* Config.WithDebug(debug).WithJSONFormat(json) on top of the filters
WithDebugJSON(f, debug, json) ==
  [Debug |-> debug, JSONFormat |-> json, Filters |-> f]

\* the configurations a Logger is constructed with in this model: one with
\* rate limits and no conditions, one with a condition and a field mask
Configs ==
  { WithDebugJSON(
      WithRateLimit(
        WithRateLimit(
          WithRateLimit(DefaultFilterConfig, LevelDebug, 1, 2),
          LevelWarn, 2, 2),
        LevelError, 1, 2),
      TRUE, FALSE),
    WithDebugJSON(
      WithFieldMask(WithLevelCondition(DefaultFilterConfig, LevelInfo),
                    "password"),
      TRUE, TRUE) }

\* LevelCondition, MessageContainsCondition, AttributeCondition
EvalCondition(c, level, msg, attrs) ==
  IF c.kind = "level" THEN level >= c.min
  ELSE IF c.kind = "msg" THEN Contains(msg, c.sub)
  ELSE \E i \in 1..Len(attrs) :
         attrs[i].key = c.key /\ attrs[i].value = c.value

\* shouldLog that lets a record pass when any one condition holds
shouldLog_Any(conds, level, msg, attrs) ==
  IF Len(conds) = 0 THEN TRUE
  ELSE \E i \in 1..Len(conds) : EvalCondition(conds[i], level, msg, attrs)

\* filteredHandler.shouldLog
shouldLog(conds, level, msg, attrs) ==
  IF Len(conds) = 0 THEN TRUE
  ELSE \A i \in 1..Len(conds) : EvalCondition(conds[i], level, msg, attrs)

\* A string (an attribute value, a file name) is a sequence of tokens; strings.HasPrefix and
\* strings.HasSuffix compare token by token.
HasPrefix(s, prefix) ==
  /\ Len(prefix) <= Len(s)
  /\ SubSeq(s, 1, Len(prefix)) = prefix

HasSuffix(s, suffix) ==
  /\ Len(suffix) <= Len(s)
  /\ SubSeq(s, Len(s) - Len(suffix) + 1, Len(s)) = suffix

\* regexp.MatchString: some alternative of the pattern occurs in src
MatchString(pattern, src) ==
  \E k \in 1..Len(src) :
    \E p \in pattern : HasPrefix(SubSeq(src, k, Len(src)), p)

RECURSIVE ReplaceAllString(_, _, _)
\* regexp.ReplaceAllString: the leftmost non-overlapping matches of the
\* pattern in src are replaced, the text between them is kept
ReplaceAllString(pattern, src, repl) ==
  IF src = <<>> THEN <<>>
  ELSE IF \E p \in pattern : HasPrefix(src, p)
       THEN LET p == CHOOSE q \in pattern : HasPrefix(src, q)
            IN repl \o ReplaceAllString(pattern,
                                        SubSeq(src, Len(p) + 1, Len(src)),
                                        repl)
       ELSE <<Head(src)>> \o ReplaceAllString(pattern, Tail(src), repl)

RECURSIVE ApplyRegex(_, _)
\* the loop over h.config.RegexFilters in applyFiltersToAttr
ApplyRegex(rules, v) ==
  IF rules = <<>> THEN v
  ELSE ApplyRegex(Tail(rules),
                  ReplaceAllString(Head(rules).Pattern, v,
                                   Head(rules).Replacement))

\* applyFiltersToAttr that skips the per-key filter
applyFiltersToAttr_NoFieldFilter(fc, attr) ==
  [key |-> attr.key, value |-> ApplyRegex(fc.RegexFilters, attr.value)]

\* filteredHandler.applyFiltersToAttr
applyFiltersToAttr(fc, attr) ==
  LET v1 == IF fc.FieldFilters[attr.key] = "mask" THEN <<"***">>
            ELSE IF fc.FieldFilters[attr.key] = "redact" THEN <<>>
            ELSE attr.value
  IN [key |-> attr.key, value |-> ApplyRegex(fc.RegexFilters, v1)]

RECURSIVE FilterAttrs(_, _)
\* the loop of applyFieldFilters: only non-empty values are kept
FilterAttrs(fc, attrs) ==
  IF attrs = <<>> THEN <<>>
  ELSE LET a == applyFiltersToAttr(fc, Head(attrs))
       IN (IF a.value # <<>> THEN <<a>> ELSE <<>>)
          \o FilterAttrs(fc, Tail(attrs))

\* filteredHandler.applyFieldFilters
applyFieldFilters(fc, attrs) ==
  IF (\A k \in Keys : fc.FieldFilters[k] = "none") /\ Len(fc.RegexFilters) = 0
  THEN attrs
  ELSE FilterAttrs(fc, attrs)

RECURSIVE AttrTokens(_)
\* the key=value pairs a handler appends to a record
AttrTokens(attrs) ==
  IF attrs = <<>> THEN <<>>
  ELSE <<Head(attrs).key>> \o Head(attrs).value \o AttrTokens(Tail(attrs))

\* time.Now().Sub(t): saturates for the zero time
Sub(t, u) == t - u

\* time.Now().Format("2006-01-02")
DateOf(t) == t \div DayTicks

(***************************************************************************)
(* Logger: construction and reinitialization                               *)
(***************************************************************************)
Goroutines == {"g1", "g2"}

Dates == 0..(MaxClock \div DayTicks)

\* {AppName}_{date}.log and {AppName}_error_{date}.log
FileNames == {"info", "error"} \X Dates

\* a nil *os.File
NoFile == [kind |-> "none", date |-> 0, gen |-> 0]

FileName(h) == <<h.kind, h.date>>

\* the results of the two os.OpenFile calls of initLoggers
OpenResults == {"ok", "infoFails", "errorFails"}

\* os.OpenFile(path, O_CREATE|O_WRONLY|O_APPEND)
OpenFile(fs, name) == [fs EXCEPT ![name].exists = TRUE]

\* os.File.Write: fails on a nil or closed file, appends otherwise
FileWrite(fs, h, p) ==
  IF h = NoFile \/ h \in closed THEN fs
  ELSE [fs EXCEPT ![FileName(h)].data = Append(@, p)]

\* levelFilterWriter.Write, wrapped around the info file
levelFilterWriterWrite(fs, h, p) ==
  IF \/ Contains(p, "level=WARN")
     \/ Contains(p, "level=ERROR")
     \/ Contains(p, "\"level\":\"WARN\"")
     \/ Contains(p, "\"level\":\"ERROR\"")
  THEN fs
  ELSE FileWrite(fs, h, p)

\* slog.New(newFilteredHandler(slog.NewTextHandler/NewJSONHandler(w, opts)))
NewLogger(level, json, file) ==
  [Level |-> level, JSONFormat |-> json, file |-> file]

\* Logger.initLoggers with l.config.Debug = debug; the caller holds no lock
initLoggers(debug, res) ==
  LET today == DateOf(clock)
      newInfo == [kind |-> "info", date |-> today, gen |-> inits + 1]
      newError == [kind |-> "error", date |-> today, gen |-> inits + 1]
      level == IF debug THEN LevelDebug ELSE LevelWarn
  IN /\ mu = 0
     /\ inits' = inits + 1
     /\ closed' = closed \cup ({infoFile, errorFile} \ {NoFile})
     /\ IF res = "infoFails"
        THEN /\ infoFile' = NoFile
             /\ UNCHANGED <<errorFile, files, infoLogger, errorLogger,
                            currentDate>>
        ELSE IF res = "errorFails"
        THEN /\ infoFile' = newInfo
             /\ errorFile' = NoFile
             /\ files' = OpenFile(files, FileName(newInfo))
             /\ UNCHANGED <<infoLogger, errorLogger, currentDate>>
        ELSE /\ infoFile' = newInfo
             /\ errorFile' = newError
             /\ files' = OpenFile(OpenFile(files, FileName(newInfo)),
                                  FileName(newError))
             /\ infoLogger' = NewLogger(level, config.JSONFormat, newInfo)
             /\ errorLogger' = NewLogger(level, config.JSONFormat, newError)
             /\ currentDate' = today

\* no SetLevel, RotateNow or Close has returned yet
NoOp == [op |-> "none", level |-> 0, err |-> FALSE]

NoLogCall == [level |-> 0, msg |-> <<>>, attrs |-> <<>>, id |-> 0,
              stream |-> "none"]

NoLocal == [rl |-> NoLimit, now |-> 0]

\* history of one handler's evaluation of a record
NoEval == [rl |-> "off", at |-> 0, win |-> 0, out |-> FALSE, open |-> FALSE,
           payload |-> <<>>, name |-> <<>>]

\* no bufferedWriter is in use
NoSink ==
  /\ newBufferedWriter(0, 0, LevelInfo)
  /\ wpc = [w \in Writers |-> "idle"]
  /\ warg = [w \in Writers |-> <<>>]
  /\ cpc = "idle"
  /\ accepted = <<>>
  /\ last = NoCall
  /\ hist = [writes |-> 0, failed |-> FALSE, closeOK |-> FALSE,
             lateWrite |-> FALSE, closes |-> 0, stops |-> 0]

\* New(config), returning a Logger, for a config taken from cfgs
NewLogger_From(cfgs) ==
  /\ config \in cfgs
  /\ infoLogger = NewLogger(IF config.Debug THEN LevelDebug ELSE LevelWarn,
                            config.JSONFormat,
                            [kind |-> "info", date |-> 0, gen |-> 1])
  /\ errorLogger = NewLogger(IF config.Debug THEN LevelDebug ELSE LevelWarn,
                             config.JSONFormat,
                             [kind |-> "error", date |-> 0, gen |-> 1])
  /\ infoFile = [kind |-> "info", date |-> 0, gen |-> 1]
  /\ errorFile = [kind |-> "error", date |-> 0, gen |-> 1]
  /\ currentDate = 0
  /\ mu = 0
  /\ clock = 0
  /\ files = [n \in FileNames |-> [exists |-> n[2] = 0, data |-> <<>>]]
  /\ closed = {}
  /\ stdout = <<>>
  /\ stderr = <<>>
  /\ inits = 1
  /\ lpc = [t \in Goroutines |-> "idle"]
  /\ call = [t \in Goroutines |-> NoLogCall]
  /\ rateLimit = [t \in Goroutines |-> NoLocal]
  /\ fatal = FALSE
  /\ ops = 0
  /\ lastOp = NoOp
  /\ log = <<>>
  /\ NoSink
  /\ NoRecord
  /\ NoSweep
  /\ NoBuilder
  /\ NoGlobal
  /\ NoLocks

InitLogger == NewLogger_From(Configs)

(***************************************************************************)
(* Logger: a log call, step by step                                        *)
(***************************************************************************)
\* the *slog.Logger a goroutine is logging through
StreamLogger(t) ==
  IF call[t].stream = "info" THEN infoLogger ELSE errorLogger

\* the history entry of goroutine t's call, with field f of the evaluation
\* on the current stream replaced
Record(t, ev) ==
  IF call[t].stream = "info"
  THEN [log EXCEPT ![call[t].id].info = ev]
  ELSE [log EXCEPT ![call[t].id].error = ev]

Eval(t) ==
  IF call[t].stream = "info" THEN log[call[t].id].info
  ELSE log[call[t].id].error

\* Warn and Error go on to l.errorLogger after l.infoLogger; the other
\* methods, and the second of the two calls, return: defer l.mu.RUnlock()
Advance(t) ==
  IF call[t].stream = "info" /\ call[t].level >= LevelWarn
  THEN /\ call' = [call EXCEPT ![t].stream = "error"]
       /\ lpc' = [lpc EXCEPT ![t] = "Handle"]
       /\ mu' = mu
  ELSE /\ call' = [call EXCEPT ![t] = NoLogCall]
       /\ lpc' = [lpc EXCEPT ![t] = "idle"]
       /\ mu' = mu - 1

\* filteredHandler.Handle after checkRateLimit: conditions, field filters,
\* then the inner handler formats the record and writes it to its writer
Emit(t, ev) ==
  LET c == call[t]
      h == StreamLogger(t)
      fc == config.Filters
      p == Format(h.JSONFormat, c.level,
                  c.msg \o AttrTokens(applyFieldFilters(fc, c.attrs)))
  IN IF ~shouldLog(fc.Conditions, c.level, c.msg, c.attrs)
     THEN /\ log' = Record(t, ev)
          /\ UNCHANGED <<stdout, stderr, files>>
     ELSE /\ log' = Record(t, [ev EXCEPT !.out = TRUE, !.payload = p])
          /\ IF c.stream = "info"
             THEN /\ stdout' = Append(stdout, p)
                  /\ files' = levelFilterWriterWrite(files, h.file, p)
                  /\ UNCHANGED stderr
             ELSE /\ stderr' = Append(stderr, p)
                  /\ files' = FileWrite(files, h.file, p)
                  /\ UNCHANGED stdout

\* the log calls that have not returned
Running == { call[t].id : t \in Goroutines } \ {0}

\* history: the calls in progress have run at the same time as another
\* operation of the Logger
Overlap ==
  [i \in DOMAIN log |->
     IF i \in Running THEN [log[i] EXCEPT !.conc = TRUE] ELSE log[i]]

\* a goroutine enters Debug, Info, Warn or Error and makes the comparison of
\* checkDateRotation, without the lock; the goroutines are interchangeable,
\* so the second one is used only while the first is busy
LogCall(t, c) ==
  /\ ~fatal
  /\ lpc[t] = "idle"
  /\ t = "g2" => lpc["g1"] # "idle"
  /\ ops < MaxOps
  /\ ops' = ops + 1
  /\ log' = Append(Overlap,
                   [level |-> c.level, conc |-> Running # {},
                    after |-> lastOp, rotate |-> "no", today |-> DateOf(clock),
                    info |-> NoEval, error |-> NoEval])
  /\ call' = [call EXCEPT ![t] = [level |-> c.level, msg |-> c.msg,
                                  attrs |-> c.attrs, id |-> Len(log) + 1,
                                  stream |-> "info"]]
  /\ lpc' = [lpc EXCEPT ![t] = IF DateOf(clock) # currentDate
                               THEN "initLoggers" ELSE "RLock"]
  /\ UNCHANGED <<config, infoLogger, errorLogger, infoFile, errorFile,
                 currentDate, mu, clock, files, closed, stdout, stderr, inits,
                 rateLimit, fatal>>
  /\ UNCHANGED <<lastOp, sinkVars, fnVars>>

\* Logger.checkDateRotation: l.initLoggers()
checkDateRotation(t, res) ==
  /\ ~fatal
  /\ lpc[t] = "initLoggers"
  /\ initLoggers(config.Debug, res)
  /\ lpc' = [lpc EXCEPT ![t] = "RLock"]
  /\ log' = [log EXCEPT ![call[t].id].rotate = res,
                        ![call[t].id].today = DateOf(clock)]
  /\ UNCHANGED <<config, mu, clock, stdout, stderr, call, rateLimit, fatal>>
  /\ UNCHANGED <<ops, lastOp, sinkVars, fnVars>>

\* l.mu.RLock() in Debug, Info, Warn, Error
RLock(t) ==
  /\ ~fatal
  /\ lpc[t] = "RLock"
  /\ mu' = mu + 1
  /\ lpc' = [lpc EXCEPT ![t] = "Handle"]
  /\ UNCHANGED <<config, infoLogger, errorLogger, infoFile, errorFile,
                 currentDate, clock, files, closed, stdout, stderr, inits,
                 call, rateLimit, fatal, log>>
  /\ UNCHANGED <<ops, lastOp, sinkVars, fnVars>>

\* slog.Logger.log: Enabled on the handler's level; then
\* filteredHandler.Handle up to checkRateLimit's read of the shared map
Handle(t) ==
  /\ ~fatal
  /\ lpc[t] = "Handle"
  /\ LET h == StreamLogger(t)
         lvl == call[t].level
         e == config.Filters.RateLimits[lvl]
         ev == [NoEval EXCEPT !.open = (h.file # NoFile /\ h.file \notin closed),
                              !.name = FileName(h.file),
                              !.at = clock]
     IN IF lvl < h.Level
        THEN /\ log' = Record(t, ev)
             /\ Advance(t)
             /\ UNCHANGED <<stdout, stderr, files, rateLimit>>
        ELSE IF ~e.set
        THEN /\ Emit(t, [ev EXCEPT !.rl = "none"])
             /\ Advance(t)
             /\ UNCHANGED rateLimit
        ELSE /\ rateLimit' = [rateLimit EXCEPT ![t] = [rl |-> e, now |-> clock]]
             /\ log' = Record(t, ev)
             /\ lpc' = [lpc EXCEPT ![t] =
                          IF Sub(clock, e.lastReset) >= e.Period
                          THEN "reset" ELSE "count"]
             /\ UNCHANGED <<call, mu, stdout, stderr, files>>
  /\ UNCHANGED <<config, infoLogger, errorLogger, infoFile, errorFile,
                 currentDate, clock, closed, inits, fatal>>
  /\ UNCHANGED <<ops, lastOp, sinkVars, fnVars>>

\* checkRateLimit: the window has elapsed; zero the copy and store it
checkRateLimitReset(t) ==
  /\ ~fatal
  /\ lpc[t] = "reset"
  /\ LET r == [rateLimit[t].rl EXCEPT !.counter = 0,
                                      !.lastReset = rateLimit[t].now]
     IN /\ rateLimit' = [rateLimit EXCEPT ![t].rl = r]
        /\ config' = [config EXCEPT !.Filters.RateLimits[call[t].level] = r]
  /\ lpc' = [lpc EXCEPT ![t] = "count"]
  /\ UNCHANGED <<infoLogger, errorLogger, infoFile, errorFile, currentDate,
                 mu, clock, files, closed, stdout, stderr, inits, call, fatal,
                 log>>
  /\ UNCHANGED <<ops, lastOp, sinkVars, fnVars>>

\* checkRateLimit: increment the copy; store it and pass if within MaxCount
checkRateLimitCount(t) ==
  /\ ~fatal
  /\ lpc[t] = "count"
  /\ LET r == [rateLimit[t].rl EXCEPT !.counter = @ + 1]
         ev == [Eval(t) EXCEPT !.win = r.lastReset]
     IN IF r.counter <= r.MaxCount
        THEN /\ config' = [config EXCEPT
                             !.Filters.RateLimits[call[t].level] = r]
             /\ Emit(t, [ev EXCEPT !.rl = "pass"])
        ELSE /\ log' = Record(t, [ev EXCEPT !.rl = "drop"])
             /\ UNCHANGED <<config, stdout, stderr, files>>
  /\ rateLimit' = [rateLimit EXCEPT ![t] = NoLocal]
  /\ Advance(t)
  /\ UNCHANGED <<infoLogger, errorLogger, infoFile, errorFile, currentDate,
                 clock, closed, inits, fatal>>
  /\ UNCHANGED <<ops, lastOp, sinkVars, fnVars>>

\* goroutine t is about to store into the RateLimits map
Storing(t) ==
  \/ lpc[t] = "reset"
  \/ lpc[t] = "count" /\ rateLimit[t].rl.counter + 1 <= rateLimit[t].rl.MaxCount

\* two unsynchronized stores into the same Go map: the runtime may detect
\* them and abort the process
concurrentMapWrites(t, u) ==
  /\ ~fatal
  /\ t # u
  /\ Storing(t)
  /\ Storing(u)
  /\ fatal' = TRUE
  /\ UNCHANGED <<config, infoLogger, errorLogger, infoFile, errorFile,
                 currentDate, mu, clock, files, closed, stdout, stderr, inits,
                 lpc, call, rateLimit, log>>
  /\ UNCHANGED <<ops, lastOp, sinkVars, fnVars>>

(***************************************************************************)
(* Logger: the other operations                                            *)
(***************************************************************************)
\* Logger.SetLevel(level); SetDebug(debug) is SetLevel with Debug or Warn
SetLevel(level, res) ==
  /\ ~fatal
  /\ ops < MaxOps
  /\ ops' = ops + 1
  /\ config' = [config EXCEPT !.Debug = (level = LevelDebug)]
  /\ initLoggers(level = LevelDebug, res)
  /\ log' = Overlap
  /\ UNCHANGED <<mu, clock, stdout, stderr, lpc, call, rateLimit, fatal>>
  /\ lastOp' = [op |-> "SetLevel", level |-> level, err |-> res # "ok"]
  /\ UNCHANGED <<sinkVars, fnVars>>

\* Logger.RotateNow
RotateNow(res) ==
  /\ ~fatal
  /\ ops < MaxOps
  /\ ops' = ops + 1
  /\ initLoggers(config.Debug, res)
  /\ log' = Overlap
  /\ UNCHANGED <<config, mu, clock, stdout, stderr, lpc, call, rateLimit,
                 fatal>>
  /\ lastOp' = [op |-> "RotateNow", level |-> 0, err |-> res # "ok"]
  /\ UNCHANGED <<sinkVars, fnVars>>

\* Logger.Close: closes both files under l.mu.Lock()
Close ==
  /\ ~fatal
  /\ ops < MaxOps
  /\ ops' = ops + 1
  /\ mu = 0
  /\ closed' = closed \cup ({infoFile, errorFile} \ {NoFile})
  /\ UNCHANGED <<config, infoLogger, errorLogger, infoFile, errorFile,
                 currentDate, mu, clock, files, stdout, stderr, inits, lpc,
                 call, rateLimit, fatal>>
  /\ log' = Overlap
  /\ lastOp' = [op |-> "Close", level |-> 0,
                err |-> ({infoFile, errorFile} \ {NoFile}) \cap closed # {}]
  /\ UNCHANGED <<sinkVars, fnVars>>

\* time passes
Tick ==
  /\ ~fatal
  /\ clock < MaxClock
  /\ clock' = clock + 1
  /\ UNCHANGED <<config, infoLogger, errorLogger, infoFile, errorFile,
                 currentDate, mu, files, closed, stdout, stderr, inits, lpc,
                 call, rateLimit, fatal, log>>
  /\ UNCHANGED <<ops, lastOp, sinkVars, fnVars>>

\* one logging goroutine; other goroutines change the level, rotate, close
NextLogger ==
  \/ \E c \in LogCalls : LogCall("g1", c)
  \/ \E res \in OpenResults : checkDateRotation("g1", res)
  \/ RLock("g1")
  \/ Handle("g1")
  \/ checkRateLimitReset("g1")
  \/ checkRateLimitCount("g1")
  \/ \E level \in Levels, res \in OpenResults : SetLevel(level, res)
  \/ \E res \in OpenResults : RotateNow(res)
  \/ Close
  \/ Tick

SpecLogger == InitLogger /\ [][NextLogger]_vars

\* two goroutines logging through the same Logger
NextConcurrent ==
  \/ \E t \in Goroutines, c \in LogCalls : LogCall(t, c)
  \/ \E t \in Goroutines : checkDateRotation(t, "ok")
  \/ \E t \in Goroutines : RLock(t)
  \/ \E t \in Goroutines : Handle(t)
  \/ \E t \in Goroutines : checkRateLimitReset(t)
  \/ \E t \in Goroutines : checkRateLimitCount(t)
  \/ \E t, u \in Goroutines : concurrentMapWrites(t, u)
  \/ Tick

SpecConcurrent == InitLogger /\ [][NextConcurrent]_vars

(***************************************************************************)
(* Claims about rate limiting and the two streams                          *)
(***************************************************************************)
RECURSIVE WindowLimiter(_, _, _, _, _)
\* the limiter of the specification: max N per window of length P; ts are
\* the times of the records, the result says which of them are admitted
WindowLimiter(ts, N, P, start, count) ==
  IF ts = <<>> THEN <<>>
  ELSE LET due == Head(ts) - start >= P
           s1 == IF due THEN Head(ts) ELSE start
           c1 == IF due THEN 0 ELSE count
       IN <<c1 < N>>
          \o WindowLimiter(Tail(ts), N, P, s1, IF c1 < N THEN c1 + 1 ELSE c1)

\* the records of level L that reached the rate limiter, in call order
Evaluated(L) ==
  SelectSeq(log, LAMBDA e : e.level = L /\ e.info.rl \in {"pass", "drop"})

\* record p is in the file called name
InFile(name, p) ==
  \E k \in 1..Len(files[name].data) : files[name].data[k] = p

\* C7: rate limit boundary; for every level with a limit of N per period P,
\* of the records of that level issued one after the other through the
\* logger, the ones admitted are those a window limiter admits: the first
\* min(N, K) of the K records of a window, and the first record after the
\* window has elapsed.
C7_RateLimitBoundary ==
  (\A i \in DOMAIN log : ~log[i].conc) =>
    \A L \in Levels :
      LET rl == config.Filters.RateLimits[L]
          es == Evaluated(L)
          ref == WindowLimiter([k \in 1..Len(es) |-> es[k].info.at],
                               rl.MaxCount, rl.Period, ZeroTime, 0)
      IN rl.set =>
           \A k \in 1..Len(es) : (es[k].info.rl = "pass") = ref[k]

\* C8: rate limiting is atomic under concurrency; for every level with a
\* limit, the number of records the limiter passes within one window (the
\* window is named by its reset time) never exceeds the configured maximum,
\* whatever the interleaving of the goroutines.
C8_RateLimitAtomic ==
  \A L \in Levels :
    LET rl == config.Filters.RateLimits[L]
    IN rl.set =>
         \A s \in 0..MaxClock :
           Cardinality({ i \in DOMAIN log :
                           /\ log[i].level = L
                           /\ log[i].info.rl = "pass"
                           /\ log[i].info.win = s }) <= rl.MaxCount

\* C9: the all-levels file receives every admitted record; once a log call
\* has returned, a record the all-levels handler emitted while its file was
\* open is in the file {AppName}_{date}.log.
C9_AllLevelsFile ==
  \A i \in DOMAIN log :
    (i \notin Running /\ log[i].info.out /\ log[i].info.open) =>
      InFile(log[i].info.name, log[i].info.payload)

\* C10: the error file receives exactly the admitted records at Warn and
\* above; every record in an error file has level Warn or Error, and once a
\* Warn or Error call has returned, its record, if admitted on the all-levels
\* stream while the error file was open, is in {AppName}_error_{date}.log.
C10_ErrorFile ==
  /\ \A n \in FileNames :
       n[1] = "error" =>
         \A k \in 1..Len(files[n].data) :
           RecordLevel(files[n].data[k]) >= LevelWarn
  /\ \A i \in DOMAIN log :
       (/\ i \notin Running
        /\ log[i].level >= LevelWarn
        /\ log[i].info.out
        /\ log[i].error.open) =>
         InFile(log[i].error.name, log[i].info.payload)

(***************************************************************************)
(* filteredHandler.Handle on one record, for every filter configuration    *)
(***************************************************************************)
\* attribute values a caller may pass; the last one is the empty string
Values == {<<"secret">>, <<"john">>, <<>>}

Attrs == [key : Keys, value : Values]

\* the attribute lists of a record
AttrSeqs == UNION { [1..n -> Attrs] : n \in 0..MaxAttrs }

\* FilterConfig.FieldFilters: per key, no filter, a mask or a redaction
FieldFilterMaps == [Keys -> {"none", "mask", "redact"}]

\* FilterConfig.RegexFilters: none, a rule matching one value, a rule that
\* also matches the mask
RegexRuleLists ==
  { DefaultFilterConfig.RegexFilters,
    WithRegexFilter(DefaultFilterConfig, {<<"secret">>},
                    <<"[R]">>).RegexFilters,
    WithRegexFilter(DefaultFilterConfig, {<<"secret">>, <<"***">>},
                    <<"[R]">>).RegexFilters }

\* FilterConfig.Conditions: lists built by chaining the With...Condition
\* methods
ConditionLists ==
  { DefaultFilterConfig.Conditions,
    WithLevelCondition(DefaultFilterConfig, LevelWarn).Conditions,
    WithMessageContainsCondition(DefaultFilterConfig, "important").Conditions,
    WithMessageContainsCondition(
      WithLevelCondition(DefaultFilterConfig, LevelWarn),
      "important").Conditions,
    WithAttributeCondition(
      WithMessageContainsCondition(DefaultFilterConfig, "important"),
      "password", <<"secret">>).Conditions }

\* message texts of the records
RecordMessages == { <<"m">>, <<"important">> }

\* the filter configurations and records put through Handle
HandleInputs ==
  [fc : [Conditions : ConditionLists, FieldFilters : FieldFilterMaps,
         RegexFilters : RegexRuleLists,
         RateLimits : {DefaultFilterConfig.RateLimits}],
   level : Levels, msg : RecordMessages, attrs : AttrSeqs]

NotEmitted == [logged |-> FALSE, attrs |-> <<>>]

\* no handler has been derived with WithAttrs
NoDerived == [made |-> FALSE, attrs |-> <<>>]

InitHandle ==
  /\ record \in HandleInputs
  /\ emitted = NotEmitted
  /\ handled = FALSE
  /\ derived = NoDerived
  /\ NoSweep
  /\ NoBuilder
  /\ NoGlobal
  /\ NoLocks
  /\ NoSink
  /\ NoLogger

\* filteredHandler.Handle with no rate limit on the level: conditions on the
\* original attributes, then field filters, then the inner handler
HandleRecord ==
  /\ ~handled
  /\ handled' = TRUE
  /\ emitted' =
       IF shouldLog(record.fc.Conditions, record.level, record.msg,
                    record.attrs)
       THEN [logged |-> TRUE,
             attrs |-> applyFieldFilters(record.fc, record.attrs)]
       ELSE NotEmitted
  /\ UNCHANGED <<record, derived, sweepVars, builderVars, globalVars,
               sinkVars, loggerVars,
                 lockVars>>

NextHandle == HandleRecord

SpecHandle == InitHandle /\ [][NextHandle]_vars

(***************************************************************************)
(* Claims about field filters and conditions, checked under SpecHandle     *)
(***************************************************************************)
\* key k has a registered per-key filter
Filtered(k) == record.fc.FieldFilters[k] # "none"

\* some regex rule matches value v
MatchesRule(v) ==
  \E i \in 1..Len(record.fc.RegexFilters) :
    MatchString(record.fc.RegexFilters[i].Pattern, v)

\* v is the replacement of some regex rule
IsReplacement(v) ==
  \E i \in 1..Len(record.fc.RegexFilters) :
    v = record.fc.RegexFilters[i].Replacement

\* the attributes of as with key k, in order
WithKey(as, k) == SelectSeq(as, LAMBDA a : a.key = k)

\* the input attributes with no filter on the key and no matching rule
PlainIn(as) ==
  SelectSeq(as, LAMBDA a : ~Filtered(a.key) /\ ~MatchesRule(a.value))

\* the emitted attributes that no filter and no rule produced
PlainOut(as) ==
  SelectSeq(as, LAMBDA a : ~Filtered(a.key) /\ ~IsReplacement(a.value))

NonEmpty(as) == SelectSeq(as, LAMBDA a : a.value # <<>>)

\* the original value of an attribute with a filtered key is not emitted
OriginalHidden ==
  \A i \in 1..Len(record.attrs) :
    Filtered(record.attrs[i].key) =>
      \A j \in 1..Len(emitted.attrs) : emitted.attrs[j] # record.attrs[i]

Satisfies(c) ==
  \/ c.kind = "level" /\ record.level >= c.min
  \/ c.kind = "msg" /\ Contains(record.msg, c.sub)
  \/ c.kind = "attr" /\ \E i \in 1..Len(record.attrs) :
                          record.attrs[i] = [key |-> c.key, value |-> c.value]

C13_ChainedConditionsAlternatives ==
  (handled /\ Len(record.fc.Conditions) = 2) =>
    (emitted.logged <=>
       \E i \in 1..2 : Satisfies(record.fc.Conditions[i]))

(***************************************************************************)
(* Claims about the level, rotation and Close, checked under SpecLogger    *)
(***************************************************************************)
\* the log calls that returned, made after a successful SetLevel(L) and before
\* any other SetLevel, RotateNow or Close
AfterSetLevel ==
  { i \in DOMAIN log : /\ i \notin Running
                       /\ log[i].after.op = "SetLevel"
                       /\ ~log[i].after.err }

\* the handler let the record of call i through its level check
PassedLevel(i) == log[i].info.rl # "off"

\* C14: minimum level; after SetLevel(L), a later log call gets its record
\* past the level check if and only if the level of the record is at or above
\* L, and the level the handlers are configured with is L.
C14_MinimumLevel ==
  /\ \A i \in AfterSetLevel : PassedLevel(i) <=> log[i].level >= log[i].after.level
  /\ (lastOp.op = "SetLevel" /\ ~lastOp.err) => infoLogger.Level = lastOp.level

\* the part of C14 the code keeps: SetLevel(Debug) emits every level and
\* SetLevel(Warn) suppresses Debug and Info
C14_DebugAndWarn ==
  \A i \in AfterSetLevel :
    log[i].after.level \in {LevelDebug, LevelWarn} =>
      (PassedLevel(i) <=> log[i].level >= log[i].after.level)

\* the log calls that returned after rotating to a new day with both files
\* opened, while no other operation of the Logger was running
Rotated ==
  { i \in DOMAIN log : /\ i \notin Running
                       /\ ~log[i].conc
                       /\ log[i].rotate = "ok" }

\* the rotation step of a log call, with both files opened: it closes the
\* previous handles, the files named for the new date exist, the handlers
\* write to them and the active day is the new date
RotationStep ==
  \A t \in Goroutines :
    (/\ lpc[t] = "initLoggers"
     /\ lpc'[t] = "RLock"
     /\ infoFile' # NoFile
     /\ errorFile' # NoFile) =>
      /\ ({infoFile, errorFile} \ {NoFile}) \subseteq closed'
      /\ FileName(infoFile') = <<"info", DateOf(clock)>>
      /\ FileName(errorFile') = <<"error", DateOf(clock)>>
      /\ files'[FileName(infoFile')].exists
      /\ files'[FileName(errorFile')].exists
      /\ infoFile' \notin closed' /\ errorFile' \notin closed'
      /\ infoLogger'.file = infoFile' /\ errorLogger'.file = errorFile'
      /\ currentDate' = DateOf(clock)

\* the handlers of a call that rotated write to the open files of the new date
HandlersOnNewDate ==
  \A i \in Rotated :
    /\ log[i].info.open
    /\ log[i].info.name = <<"info", log[i].today>>
    /\ log[i].level >= LevelWarn =>
         /\ log[i].error.open
         /\ log[i].error.name = <<"error", log[i].today>>

\* a record a call emitted after rotating is in a file of the new date
RecordInNewDateFile ==
  \A i \in Rotated :
    log[i].info.out =>
      \/ InFile(<<"info", log[i].today>>, log[i].info.payload)
      \/ /\ log[i].error.out
         /\ InFile(<<"error", log[i].today>>, log[i].error.payload)

\* only the files of the active day grow
NoWriteToPreviousDay ==
  \A n \in FileNames : files'[n].data # files[n].data => n[2] = currentDate'

\* C15: day rotation; a log call made when the current date differs from the
\* active day closes the previous handles, opens the files named for the new
\* date, makes the new date the active day and writes its record into a file
\* of the new date; no record is written to a file of a previous day after
\* that.
C15_DayRotation ==
  /\ [](HandlersOnNewDate /\ RecordInNewDateFile)
  /\ [][RotationStep /\ NoWriteToPreviousDay]_vars

\* C15 without the arrival of the record in the file: the rotation itself
C15_RotationItself ==
  /\ []HandlersOnNewDate
  /\ [][RotationStep /\ NoWriteToPreviousDay]_vars

\* a call rotated and its Debug record is in the all-levels file of the new day
C15_RotatedAndWritten ==
  \E i \in Rotated :
    /\ log[i].level = LevelDebug
    /\ InFile(<<"info", log[i].today>>, log[i].info.payload)
    /\ log[i].today # 0

\* the log calls that returned, made while the last reinitialization (their
\* own day-change rotation, or the RotateNow or SetLevel before them) had
\* failed to open a file, with no other operation of the Logger running
AfterFailedReinit ==
  { i \in DOMAIN log :
      /\ i \notin Running
      /\ ~log[i].conc
      /\ \/ log[i].rotate \in {"infoFails", "errorFails"}
         \/ /\ log[i].rotate = "no"
            /\ log[i].after.op \in {"RotateNow", "SetLevel"}
            /\ log[i].after.err }

\* a reinitialization that fails to open a file leaves the handlers, and so
\* the handles they write to, as they were
FailedReinitKeepsHandlers ==
  (inits' # inits /\ (infoFile' = NoFile \/ errorFile' = NoFile)) =>
    UNCHANGED <<infoLogger, errorLogger, currentDate>>

\* a record emitted by the handlers is in the file of one of them
RecordInHandlerFile(i) ==
  log[i].info.out =>
    \/ InFile(log[i].info.name, log[i].info.payload)
    \/ /\ log[i].error.out
       /\ InFile(log[i].error.name, log[i].error.payload)

\* C16: rotation failure is non-destructive; when a reinitialization cannot
\* open the new files, RotateNow returns the error, the handlers stay as they
\* were, and the records of later log calls still reach the files the
\* handlers had before: they are open and the emitted record is in them.
C16_RotationFailureNonDestructive ==
  /\ [][FailedReinitKeepsHandlers]_vars
  /\ [](\A i \in AfterFailedReinit :
          /\ log[i].info.open
          /\ log[i].level >= LevelWarn => log[i].error.open
          /\ RecordInHandlerFile(i))

\* the part of C16 the code keeps: the handlers are left as they were
C16_HandlersKept == [][FailedReinitKeepsHandlers]_vars

\* a Debug record was emitted after a failed RotateNow and is in no file
C16_RecordLost ==
  \E i \in AfterFailedReinit :
    /\ log[i].after.op = "RotateNow"
    /\ log[i].level = LevelDebug
    /\ log[i].info.out
    /\ ~log[i].info.open
    /\ \A n \in FileNames : ~InFile(n, log[i].info.payload)

(***************************************************************************)
(* Retention sweep: performCleanup, isOurLogFile, GetLogFiles (cleanup.go) *)
(***************************************************************************)
\* l.config.AppName of the logger that sweeps
AppName == <<"app">>

\* the app names of the loggers that write into the same directory:
\* "app", "otherapp", "app2" and "app_v2"
AppNames == {AppName, <<"otherapp">>, <<"app", "2">>, <<"app", "_", "v2">>}

LogDate == "2024-01-01"

\* fmt.Sprintf("%s_%s.log", AppName, today) and
\* fmt.Sprintf("%s_error_%s.log", AppName, today)
LogFileName(app, kind, date) ==
  app \o (IF kind = "error" THEN <<"_", "error", "_">> ELSE <<"_">>)
      \o <<date, ".log">>

\* the names in the directory: the two files of this logger, the all-levels
\* file of every other logger, and app.txt, random.log, app_, app_notes.log
Names ==
  { LogFileName(AppName, k, LogDate) : k \in {"info", "error"} }
    \cup { LogFileName(b, "info", LogDate) : b \in AppNames }
    \cup { <<"app", ".txt">>, <<"random", ".log">>, <<"app", "_">>,
           <<"app", "_", "notes", ".log">> }

\* the sweep runs at time MaxAge; files were modified at 0..MaxAge
Now == MaxAge

ModTimes == 0..MaxAge

NoEntry == [kind |-> "none", modTime |-> 0]

\* os.DirEntry: a regular file or a directory, with its modification time
Entries ==
  [kind : {"file"}, modTime : ModTimes] \cup {[kind |-> "dir", modTime |-> 0]}

\* the directories with at most MaxFiles entries
Directories ==
  UNION { { [n \in Names |-> IF n \in S THEN f[n] ELSE NoEntry] :
              f \in [S -> Entries] } :
          S \in { T \in SUBSET Names : Cardinality(T) <= MaxFiles } }

RetentionChoices == {1, 2}

\* the results the file system gives one sweep
Environments == {"ok", "readDirFails", "infoFails", "removeFails"}

NoSweepYet == [done |-> FALSE, env |-> "ok", before |-> <<>>,
               removed |-> {}, logged |-> {}]

NoLogFiles == [done |-> FALSE, err |-> FALSE, names |-> {}]

\* Logger.isOurLogFile
isOurLogFile(filename) ==
  IF ~HasPrefix(filename, AppName) THEN FALSE
  ELSE IF ~HasSuffix(filename, <<".log">>) THEN FALSE
  ELSE \E pattern \in {AppName \o <<"_">>, AppName \o <<"_", "error", "_">>} :
         HasPrefix(filename, pattern)

\* Logger.shouldRemoveFile: info.ModTime().Before(cutoffDate)
shouldRemoveFile(entry, cutoffDate, infoErr) ==
  IF infoErr THEN FALSE ELSE entry.modTime < cutoffDate

InitSweep ==
  /\ logDir \in Directories
  /\ retentionDays \in RetentionChoices
  /\ sweep = NoSweepYet
  /\ logFiles = NoLogFiles
  /\ loggerClosed = FALSE
  /\ NoBuilder
  /\ NoGlobal
  /\ NoLocks
  /\ NoRecord
  /\ NoSink
  /\ NoLogger

\* startCleanupRoutine runs performCleanup when the Logger is created and at
\* every tick of its 24 hour ticker, in a loop with no exit; the moments of
\* the runs are the steps of performCleanup below.
\* Logger.performCleanup, one run: the entries read by os.ReadDir, the
\* directories and the names of other loggers skipped, os.Remove on the files
\* older than the cutoff, and l.Info or l.Error called with the outcome
performCleanup(env) ==
  /\ ~sweep.done
  /\ LET cutoffDate == Now - retentionDays
         entries == IF env = "readDirFails" THEN {}
                    ELSE { n \in Names : logDir[n] # NoEntry }
         old == { n \in entries :
                    /\ logDir[n].kind # "dir"
                    /\ isOurLogFile(n)
                    /\ shouldRemoveFile(logDir[n], cutoffDate,
                                        env = "infoFails") }
         removed == IF env = "removeFails" THEN {} ELSE old
     IN /\ logDir' = [n \in Names |->
                        IF n \in removed THEN NoEntry ELSE logDir[n]]
        /\ sweep' = [done |-> TRUE, env |-> env, before |-> logDir,
                     removed |-> removed,
                     logged |->
                       IF env = "readDirFails"
                       THEN {[msg |-> "Failed to read log directory",
                              file |-> <<>>]}
                       ELSE { [msg |-> IF n \in removed
                                       THEN "Removed old log file"
                                       ELSE "Failed to remove old log file",
                               file |-> n] : n \in old }]
  /\ UNCHANGED <<retentionDays, logFiles, loggerClosed>>
  /\ UNCHANGED <<filterVars, builderVars, globalVars, sinkVars,
               loggerVars,
                 lockVars>>

\* Logger.GetLogFiles
GetLogFiles(err) ==
  /\ ~logFiles.done
  /\ logFiles' =
       IF err THEN [done |-> TRUE, err |-> TRUE, names |-> {}]
       ELSE [done |-> TRUE, err |-> FALSE,
             names |-> { n \in Names : /\ logDir[n] # NoEntry
                                       /\ logDir[n].kind # "dir"
                                       /\ isOurLogFile(n) }]
  /\ UNCHANGED <<logDir, retentionDays, sweep, loggerClosed>>
  /\ UNCHANGED <<filterVars, builderVars, globalVars, sinkVars,
               loggerVars,
                 lockVars>>

\* Logger.Close as the cleanup goroutine sees it: Close locks l.mu and closes
\* the two files; it touches nothing the loop of startCleanupRoutine reads
LoggerClose ==
  /\ ~loggerClosed
  /\ loggerClosed' = TRUE
  /\ UNCHANGED <<logDir, retentionDays, sweep, logFiles>>
  /\ UNCHANGED <<filterVars, builderVars, globalVars, sinkVars,
               loggerVars,
                 lockVars>>

NextSweep ==
  \/ \E env \in Environments : performCleanup(env)
  \/ \E err \in BOOLEAN : GetLogFiles(err)
  \/ LoggerClose

SpecSweep == InitSweep /\ [][NextSweep]_vars

(***************************************************************************)
(* Claims about the retention sweep, checked under SpecSweep               *)
(***************************************************************************)
\* the naming convention of this logger: {AppName}_{date}.log and
\* {AppName}_error_{date}.log
OwnNames == { LogFileName(AppName, k, LogDate) : k \in {"info", "error"} }

\* the files a sweep of directory d is to remove: the regular files named as
\* this logger names its files, modified strictly before now - retentionDays
Expired(d, matching) ==
  { n \in Names : /\ d[n].kind = "file"
                  /\ n \in matching
                  /\ d[n].modTime < Now - retentionDays }

\* a sweep the file system did not disturb has removed the files of
\* Expired, and everything else in the directory is as it was
SweepRemoves(matching) ==
  (sweep.done /\ sweep.env = "ok") =>
    /\ sweep.removed = Expired(sweep.before, matching)
    /\ \A n \in Names :
         logDir[n] = IF n \in Expired(sweep.before, matching)
                     THEN NoEntry ELSE sweep.before[n]

\* C17: retention sweep; one sweep removes every regular file of the log
\* directory that matches the naming convention of this logger and was
\* modified strictly before now minus retentionDays, and removes nothing
\* else: files modified at or after the cutoff, directories and files with
\* other names remain.
C17_RetentionSweep == SweepRemoves(OwnNames)

\* C17 with the names isOurLogFile accepts in the place of the naming
\* convention
C17_SweepOfAccepted == SweepRemoves({ n \in Names : isOurLogFile(n) })

\* a sweep removed an expired file of this logger and left a file modified
\* at the cutoff and a directory in place
C17_Swept ==
  /\ sweep.done /\ sweep.env = "ok"
  /\ \E n \in OwnNames : n \in sweep.removed
  /\ \E n \in OwnNames : /\ logDir[n].kind = "file"
                         /\ logDir[n].modTime = Now - retentionDays

\* the log files of the other loggers: otherapp, app2, app_v2
OtherLogFiles ==
  { LogFileName(b, "info", LogDate) : b \in AppNames \ {AppName} }

\* C18: sweep ownership; a file name is taken for a log file of this logger,
\* that is listed by GetLogFiles or removed by the sweep, only if it is
\* {AppName}_{date}.log or {AppName}_error_{date}.log; a log file of a
\* logger with another app name, also one that starts with AppName, is never
\* listed or removed.
C18_SweepOwnership ==
  /\ logFiles.names \subseteq OwnNames
  /\ sweep.removed \subseteq OwnNames
  /\ \A n \in OtherLogFiles : n \notin logFiles.names \cup sweep.removed

\* C18 for the app names that do not start with AppName followed by "_":
\* the files of otherapp and app2, app.txt, random.log and app_ are never
\* listed or removed
C18_ForeignPrefix ==
  \A n \in Names :
    ~HasPrefix(n, AppName \o <<"_">>) \/ ~HasSuffix(n, <<".log">>) =>
      n \notin logFiles.names \cup sweep.removed

(***************************************************************************)
(* Claims about Logger.Close, checked under SpecLogger                     *)
(***************************************************************************)
\* the step is a call of Logger.Close
IsLoggerClose ==
  /\ ops' = ops + 1
  /\ Len(log') = Len(log)
  /\ lastOp'.op = "Close"

\* the step is a call of Logger.Close on a Logger whose last SetLevel,
\* RotateNow or Close was a Close
IsSecondClose == IsLoggerClose /\ lastOp.op = "Close"

\* C20: Logger Close is idempotent; a second Close on the same Logger does
\* not panic, changes nothing and returns nil.
C20_LoggerCloseIdempotent ==
  [][IsSecondClose =>
       /\ ~fatal'
       /\ UNCHANGED <<infoFile, errorFile, closed, files>>
       /\ ~lastOp'.err]_vars

\* the part of C20 the code keeps: the second Close does not panic and
\* changes no file
C20_SecondCloseChangesNothing ==
  [][IsSecondClose =>
       /\ ~fatal'
       /\ UNCHANGED <<infoFile, errorFile, closed, files>>]_vars

(***************************************************************************)
(* Claims about closing the bufferedWriter twice, checked under SpecSink   *)
(***************************************************************************)
\* the step is the final flush of a Close called after another Close returned
IsSecondCloseFlush == IsCloseFlush /\ hist.closes >= 1

\* bw.stopChan is closed at most once, so no Close panics, and the periodic
\* task, once it has exited, is not started again
StoppedAtMostOnce ==
  /\ [](hist.stops <= 1)
  /\ [](size = 0 => hist.stops = 0)
  /\ [][timerPc = "exited" => timerPc' = "exited"]_vars

\* C19 as stated: Close is idempotent in every mode; no Close panics, the
\* periodic task is stopped at most once, and a second Close writes nothing
\* to the destination and returns success.
C19_CloseIdempotentAsStated ==
  /\ StoppedAtMostOnce
  /\ [][IsSecondCloseFlush => dest' = dest /\ ~last'.err]_vars

\* C19: Close is idempotent in every mode; no Close panics and the periodic
\* task is stopped at most once. A second Close that finds the buffer empty
\* writes nothing and returns success; one that finds data in the buffer
\* (kept by a failed flush, or written after the first Close) flushes it as
\* the first Close does: the data reaches the destination and Close returns
\* success, or the write fails, the data stays and Close returns the error.
C19_CloseIdempotent ==
  /\ StoppedAtMostOnce
  /\ [][IsSecondCloseFlush =>
          /\ last'.op = "Close"
          /\ buffer = <<>> => dest' = dest /\ buffer' = <<>> /\ ~last'.err
          /\ buffer # <<>> =>
               \/ dest' = Append(dest, buffer) /\ buffer' = <<>> /\ ~last'.err
               \/ dest' = dest /\ buffer' = buffer /\ last'.err]_vars

\* C19 witness: a buffering sink with timer was closed twice; the timer task
\* has exited, the first Close delivered the payload and the second one left
\* the destination as it was and returned success.
C19_Witness ==
  /\ size > 0 /\ flushInterval > 0
  /\ hist.closes = 2
  /\ hist.stops = 1
  /\ timerPc = "exited"
  /\ ~hist.failed /\ ~hist.lateWrite
  /\ last.op = "Close" /\ ~last.err
  /\ Len(accepted) = 1
  /\ buffer = <<>>
  /\ dest = << accepted[1] >>

(***************************************************************************)
(* Claims about the background task, checked under SpecSweep               *)
(***************************************************************************)
\* C21: Logger.Close stops the background task; once Close has returned, the
\* retention sweep of that logger does not run again: no sweep is made, no
\* file is removed and no log call is issued by it.
C21_CloseStopsSweep ==
  [][loggerClosed => UNCHANGED <<sweep, logDir>>]_vars

\* a sweep made after Close removed a file and logged the removal
C21_SweepAfterClose ==
  /\ loggerClosed
  /\ sweep.done
  /\ sweep.before # logDir
  /\ sweep.logged # {}

(***************************************************************************)
(* Claims about the periodic flush, checked under SpecTimer                *)
(***************************************************************************)
\* every byte Write accepted is in the destination
Delivered == Flatten(dest) = Flatten(accepted)

\* C22: time trigger; in buffering mode with a flush interval and a
\* destination that accepts writes, the bytes accepted by Write reach the
\* destination by the periodic task alone, with no Flush or Close. With
\* interval 0 there is no periodic task, and the destination changes only in
\* a Write.
C22_TimeTrigger ==
  /\ (size > 0 /\ flushInterval > 0) => []<>Delivered
  /\ [](flushInterval = 0 => timerPc = "none")
  /\ [][(flushInterval = 0 /\ dest' # dest) => \E w \in Writers : IsWrite(w)]_vars

\* C22 witness: one payload below capacity and below the flush level, taken
\* by Write and delivered by the periodic task
C22_Witness ==
  /\ size > 0 /\ flushInterval > 0
  /\ Len(accepted) = 1
  /\ ~shouldFlushImmediately(accepted[1], flushOnLevel)
  /\ Len(accepted[1]) < size
  /\ buffer = <<>>
  /\ dest = << accepted[1] >>

(***************************************************************************)
(* Claims about retries and the unbuffered mode, checked under SpecSink    *)
(***************************************************************************)
\* the last call of the application returned a destination error and the
\* bytes it could not write are still in the buffer
Retained == last.err /\ buffer # <<>>

\* with Retained: the step is a tick of the periodic task that flushed (an
\* application call that writes to the destination changes last or a
\* goroutine's position)
IsTickAfterFailure ==
  /\ Retained
  /\ last' = last /\ wpc' = wpc /\ cpc' = cpc /\ timerPc' = timerPc
  /\ buffer' # buffer

\* C23 as stated: a failed flush is not retried automatically; the retained
\* bytes are written to the destination again only by a later Flush or Close
\* of the application, never by the periodic task or by a later Write.
C23_NoAutomaticRetryAsStated ==
  [][(Retained /\ dest' # dest) => (IsFlush \/ IsCloseFlush)]_vars

\* C23: a failed flush is not retried by the call that failed: the call
\* returns the error, has written nothing and the bytes stay buffered. The
\* retained bytes are written by the next flush of any origin, in one write
\* and ahead of later bytes: a Flush or Close of the application, the next
\* tick of the periodic task, or a later Write that flushes.
C23_NoAutomaticRetry ==
  [][ /\ ((IsFlush \/ IsCloseFlush) /\ last'.err)
         => dest' = dest /\ buffer' = buffer
      /\ \A w \in Writers :
           (IsWrite(w) /\ size > 0 /\ last'.err)
           => dest' = dest /\ buffer' = buffer \o warg[w]
      /\ IsTickAfterFailure => dest' = Append(dest, buffer) /\ buffer' = <<>>
      /\ (Retained /\ dest' # dest)
         => \/ dest' = Append(dest, buffer) /\ buffer' = <<>>
            \/ \E w \in Writers :
                 /\ IsWrite(w)
                 /\ dest' = Append(dest, buffer \o warg[w])
                 /\ buffer' = <<>> ]_vars

\* C23 witness: a Write failed in its flush, and the periodic task delivered
\* the retained payload before any other call returned
C23_Witness ==
  /\ size > 0 /\ timerPc = "running"
  /\ last.op = "Write" /\ last.err
  /\ Len(accepted) = 1
  /\ buffer = <<>>
  /\ dest = << accepted[1] >>

\* C24: unbuffered mode; with capacity 0 or negative every Write goes
\* straight to the destination: when the destination accepts, the payload is
\* its next chunk and Write returns (len(p), nil); when it fails, Write
\* returns its error and nothing is written; the buffer is always empty and
\* there is no periodic task, whatever flush interval was given.
C24_UnbufferedMode ==
  /\ [](size = 0 => buffer = <<>> /\ timerPc = "none" /\ ~stopClosed)
  /\ [][\A w \in Writers :
          (IsWrite(w) /\ size = 0) =>
            /\ last'.op = "Write"
            /\ ~last'.err => /\ dest' = Append(dest, warg[w])
                             /\ last'.n = Len(warg[w])
            /\ last'.err => dest' = dest /\ last'.n = 0]_vars

\* C24 witness: an unbuffered sink has passed two payloads to the
\* destination, one chunk each
C24_Witness ==
  /\ size = 0
  /\ last.op = "Write" /\ ~last.err
  /\ Len(accepted) = 2
  /\ dest = accepted
  /\ buffer = <<>>

(***************************************************************************)
(* Claims about empty attributes, checked under SpecHandle                 *)
(***************************************************************************)
\* some field filter or some regex rule is registered
FiltersRegistered ==
  \/ \E k \in Keys : Filtered(k)
  \/ Len(record.fc.RegexFilters) > 0

\* no attribute passed to the inner handler has the empty string as value
NoEmptyEmitted ==
  \A j \in 1..Len(emitted.attrs) : emitted.attrs[j].value # <<>>

\* C25: no empty attribute is ever admitted; for every filter configuration,
\* the one with no field filters and no regex rules included, and every
\* record, no attribute whose value after filtering is the empty string is
\* in the attribute list passed on to the inner handler.
C25_NoEmptyAttribute ==
  (handled /\ emitted.logged) => NoEmptyEmitted

\* the part of C25 that holds: with a field filter or a regex rule
\* registered, no attribute with an empty value is passed on
C25_NoEmptyWhenFiltering ==
  (handled /\ emitted.logged /\ FiltersRegistered) => NoEmptyEmitted

(***************************************************************************)
(* applyFieldFilters applied to its own output                             *)
(***************************************************************************)
\* attribute values of the records filtered twice: those of Values and the
\* text "aab"
Texts == Values \cup { <<"a", "a", "b">> }

TextAttrs == [key : Keys, value : Texts]

TextAttrSeqs == UNION { [1..n -> TextAttrs] : n \in 0..MaxAttrs }

\* FilterConfig.RegexFilters: those of RegexRuleLists and a rule that
\* replaces the text "ab" by "b"
SubstringRuleLists ==
  RegexRuleLists \cup
    { WithRegexFilter(DefaultFilterConfig, {<<"a", "b">>},
                      <<"b">>).RegexFilters }

\* the filter configurations and records put through applyFieldFilters twice
RefilterInputs ==
  [fc : [Conditions : {DefaultFilterConfig.Conditions},
         FieldFilters : FieldFilterMaps,
         RegexFilters : SubstringRuleLists,
         RateLimits : {DefaultFilterConfig.RateLimits}],
   level : {LevelInfo}, msg : { <<"m">> }, attrs : TextAttrSeqs]

InitRefilter ==
  /\ record \in RefilterInputs
  /\ emitted = NotEmitted
  /\ handled = FALSE
  /\ derived = NoDerived
  /\ NoSweep
  /\ NoBuilder
  /\ NoGlobal
  /\ NoLocks
  /\ NoSink
  /\ NoLogger

\* applyFieldFilters on the attributes it returned
Reapply ==
  /\ handled
  /\ emitted.logged
  /\ emitted' = [emitted EXCEPT !.attrs = applyFieldFilters(record.fc, @)]
  /\ UNCHANGED <<record, handled, derived, sweepVars, builderVars,
               globalVars, sinkVars, loggerVars,
                 lockVars>>

NextRefilter ==
  \/ HandleRecord
  \/ Reapply

SpecRefilter == InitRefilter /\ [][NextRefilter]_vars

(***************************************************************************)
(* Claims about idempotence, checked under SpecRefilter                    *)
(***************************************************************************)
\* the mask and the replacement of every rule match no regex rule
StableReplacements ==
  /\ ~MatchesRule(<<"***">>)
  /\ \A i \in 1..Len(record.fc.RegexFilters) :
       ~MatchesRule(record.fc.RegexFilters[i].Replacement)

\* no regex rule matches in a value that the first application returned
NoMatchLeft ==
  \A j \in 1..Len(emitted.attrs) : ~MatchesRule(emitted.attrs[j].value)

\* C26: field filtering is idempotent; for every configuration in which the
\* mask and the replacements match no regex rule, applying applyFieldFilters
\* to its own output returns the same attribute sequence.
C26_FieldFilterIdempotent ==
  [][(handled /\ StableReplacements) => emitted' = emitted]_vars

\* the part of C26 that holds: the second application returns its input when,
\* in addition, no rule matches in a value the first application returned
C26_IdempotentWithoutMatchLeft ==
  [][(handled /\ StableReplacements /\ NoMatchLeft) => emitted' = emitted]_vars

\* the second application changed a value: "aab" became "ab", then "b"
C26_SecondPassDiffers ==
  /\ handled
  /\ StableReplacements
  /\ record.attrs = <<[key |-> "user", value |-> <<"a", "a", "b">>]>>
  /\ emitted.attrs = <<[key |-> "user", value |-> <<"b">>]>>

(***************************************************************************)
(* The With... builders on Config values that share maps and backing       *)
(* arrays (config.go, filters.go)                                          *)
(***************************************************************************)
\* the most builder calls a program makes, after the most WithLevelCondition
\* calls chained on DefaultConfig() to make base
MaxBuilds == 3
MaxChain == 3

\* the Config variables of the program
CfgNames == {"base", "a", "b"}

\* a slice with no backing array: []T{} and a nil slice
EmptySlice == [array |-> 0, len |-> 0]

\* cap(s) and the elements of s, with the backing arrays as
Cap(as, s) == IF s.array = 0 THEN 0 ELSE as[s.array].cap

Elems(as, s) ==
  IF s.array = 0 THEN <<>> ELSE SubSeq(as[s.array].elems, 1, s.len)

\* append(s, x): x is written into the backing array after the last element
\* of s when the array has room, else s is copied into a new array of twice
\* the capacity; gives the arrays and the slice returned
append(as, s, x) ==
  IF s.len < Cap(as, s)
  THEN [arrays |-> [as EXCEPT ![s.array].elems =
                      SubSeq(@, 1, s.len) \o <<x>>
                        \o SubSeq(@, s.len + 2, Len(@))],
        slice |-> [s EXCEPT !.len = @ + 1]]
  ELSE [arrays |-> Append(as, [cap |-> IF Cap(as, s) = 0 THEN 1
                                       ELSE 2 * Cap(as, s),
                               elems |-> Elems(as, s) \o <<x>>]),
        slice |-> [array |-> Len(as) + 1, len |-> s.len + 1]]

\* regexp.Compile fails: a "[" opens a class that no "]" closes
SyntaxError(pattern) ==
  \E p \in pattern :
    \E i \in 1..Len(p) :
      p[i] = "[" /\ \A j \in (i + 1)..Len(p) : p[j] # "]"

\* the patterns given to the builders: one that compiles, one that does not
Patterns == { {<<"secret">>}, {<<"[", "a">>} }

\* the conditions given to WithCondition
Conditions ==
  { WithLevelCondition(DefaultFilterConfig, LevelWarn).Conditions[1],
    WithMessageContainsCondition(DefaultFilterConfig,
                                 "important").Conditions[1] }

\* the contents of a Config: what its fields, maps and slices hold
View(c, ms, as) ==
  [ConsoleOutput |-> c.ConsoleOutput,
   Conditions |-> Elems(as, c.Conditions),
   FieldFilters |-> IF c.FieldFilters = 0
                    THEN DefaultFilterConfig.FieldFilters
                    ELSE ms[c.FieldFilters],
   RegexFilters |-> Elems(as, c.RegexFilters),
   RateLimits |-> IF c.RateLimits = 0 THEN DefaultFilterConfig.RateLimits
                  ELSE ms[c.RateLimits]]

NoBuild == [n |-> 0, fn |-> "none", src |-> "base", dst |-> "base",
            pattern |-> {}, panicked |-> FALSE]

RECURSIVE Chained(_)
\* the arrays and the Conditions slice after n chained calls of
\* WithLevelCondition(LevelDebug) on DefaultConfig()
Chained(n) ==
  IF n = 0 THEN [arrays |-> <<>>, slice |-> EmptySlice]
  ELSE LET r == Chained(n - 1)
       IN append(r.arrays, r.slice,
                 WithLevelCondition(DefaultFilterConfig,
                                    LevelDebug).Conditions[1])

\* base := DefaultConfig() with the two maps DefaultFilterConfig makes and up
\* to MaxChain chained WithLevelCondition calls, or base := Config{}
InitBuilder ==
  /\ \/ \E n \in 0..MaxChain :
          /\ maps = <<DefaultFilterConfig.FieldFilters,
                      DefaultFilterConfig.RateLimits>>
          /\ arrays = Chained(n).arrays
          /\ configs = ("base" :> [ConsoleOutput |-> TRUE,
                                   Conditions |-> Chained(n).slice,
                                   FieldFilters |-> 1,
                                   RegexFilters |-> EmptySlice,
                                   RateLimits |-> 2])
     \/ /\ maps = <<>>
        /\ arrays = <<>>
        /\ configs = ("base" :> [ConsoleOutput |-> FALSE,
                                 Conditions |-> EmptySlice,
                                 FieldFilters |-> 0,
                                 RegexFilters |-> EmptySlice,
                                 RateLimits |-> 0])
  /\ built = NoBuild
  /\ NoGlobal
  /\ NoLocks
  /\ NoRecord
  /\ NoSweep
  /\ NoSink
  /\ NoLogger

\* a builder call dst := src.fn(...) may be made
CanBuild(src, dst) ==
  /\ built.n < MaxBuilds
  /\ ~built.panicked
  /\ src \in DOMAIN configs
  /\ dst \in CfgNames

\* the call returned c, assigned to dst
Returned(fn, src, dst, c, pattern) ==
  /\ configs' = (dst :> c) @@ configs
  /\ built' = [n |-> built.n + 1, fn |-> fn, src |-> src, dst |-> dst,
               pattern |-> pattern, panicked |-> FALSE]
  /\ UNCHANGED <<filterVars, sweepVars, globalVars, sinkVars, loggerVars,
                 lockVars>>

\* dst := src.WithConsoleOutput(console)
BuildWithConsoleOutput(src, dst, console) ==
  /\ CanBuild(src, dst)
  /\ Returned("WithConsoleOutput", src, dst,
              [configs[src] EXCEPT !.ConsoleOutput = console], {})
  /\ UNCHANGED <<maps, arrays>>

\* dst := src.WithCondition(condition)
BuildWithCondition(src, dst, condition) ==
  /\ CanBuild(src, dst)
  /\ LET r == append(arrays, configs[src].Conditions, condition)
     IN /\ arrays' = r.arrays
        /\ Returned("WithCondition", src, dst,
                    [configs[src] EXCEPT !.Conditions = r.slice], {})
  /\ UNCHANGED maps

\* dst := src.WithFieldFilter(key, filter)
BuildWithFieldFilter(src, dst, key, filter) ==
  /\ CanBuild(src, dst)
  /\ LET c == configs[src]
         made == c.FieldFilters = 0
         ref == IF made THEN Len(maps) + 1 ELSE c.FieldFilters
         ms == IF made THEN Append(maps, DefaultFilterConfig.FieldFilters)
               ELSE maps
     IN /\ maps' = [ms EXCEPT ![ref][key] = filter]
        /\ Returned("WithFieldFilter", src, dst,
                    [c EXCEPT !.FieldFilters = ref], {})
  /\ UNCHANGED arrays

\* dst := src.WithRegexFilter(pattern, replacement)
BuildWithRegexFilter(src, dst, pattern, replacement) ==
  /\ CanBuild(src, dst)
  /\ IF SyntaxError(pattern)
     THEN /\ Returned("WithRegexFilter", src, dst, configs[src], pattern)
          /\ UNCHANGED arrays
     ELSE LET r == append(arrays, configs[src].RegexFilters,
                          [Pattern |-> pattern, Replacement |-> replacement])
          IN /\ arrays' = r.arrays
             /\ Returned("WithRegexFilter", src, dst,
                         [configs[src] EXCEPT !.RegexFilters = r.slice],
                         pattern)
  /\ UNCHANGED maps

\* dst := src.WithRateLimit(level, maxCount, period)
BuildWithRateLimit(src, dst, level, maxCount, period) ==
  /\ CanBuild(src, dst)
  /\ LET c == configs[src]
         made == c.RateLimits = 0
         ref == IF made THEN Len(maps) + 1 ELSE c.RateLimits
         ms == IF made THEN Append(maps, DefaultFilterConfig.RateLimits)
               ELSE maps
     IN /\ maps' = [ms EXCEPT ![ref] =
                      WithRateLimit([RateLimits |-> @], level, maxCount,
                                    period).RateLimits]
        /\ Returned("WithRateLimit", src, dst,
                    [c EXCEPT !.RateLimits = ref], {})
  /\ UNCHANGED arrays

\* RegexMaskFilter(pattern, mask): regexp.MustCompile panics on a pattern
\* that does not compile
RegexMaskFilter(pattern) ==
  /\ built.n < MaxBuilds
  /\ ~built.panicked
  /\ built' = [n |-> built.n + 1, fn |-> "RegexMaskFilter", src |-> "base",
               dst |-> "base", pattern |-> pattern,
               panicked |-> SyntaxError(pattern)]
  /\ UNCHANGED <<configs, maps, arrays>>
  /\ UNCHANGED <<filterVars, sweepVars, globalVars, sinkVars, loggerVars,
                 lockVars>>

NextBuilder ==
  \/ \E src, dst \in CfgNames : BuildWithConsoleOutput(src, dst, FALSE)
  \/ \E src, dst \in CfgNames, c \in Conditions :
       BuildWithCondition(src, dst, c)
  \/ \E src, dst \in CfgNames, k \in Keys, f \in {"mask", "redact"} :
       BuildWithFieldFilter(src, dst, k, f)
  \/ \E src, dst \in CfgNames, p \in Patterns :
       BuildWithRegexFilter(src, dst, p, <<"[R]">>)
  \/ \E src, dst \in CfgNames : BuildWithRateLimit(src, dst, LevelError, 1, 2)
  \/ \E p \in Patterns : RegexMaskFilter(p)

SpecBuilder == InitBuilder /\ [][NextBuilder]_vars

(***************************************************************************)
(* Claims about the configuration builders, checked under SpecBuilder      *)
(***************************************************************************)
\* the step is a call made with a pattern that does not compile
BadPatternCall ==
  /\ built'.n # built.n
  /\ SyntaxError(built'.pattern)

\* after the step every Config holds the regex rules it held before, and the
\* Config returned holds those of the receiver
RulesUnchanged ==
  /\ \A n \in DOMAIN configs :
       n # built'.dst =>
         View(configs'[n], maps', arrays').RegexFilters =
           View(configs[n], maps, arrays).RegexFilters
  /\ View(configs'[built'.dst], maps', arrays').RegexFilters =
       View(configs[built'.src], maps, arrays).RegexFilters

\* C27: a bad filter configuration never crashes; a call of
\* Config.WithRegexFilter or RegexMaskFilter with a pattern that does not
\* compile raises no panic, registers no rule and leaves the registered regex
\* rules unchanged.
C27_BadPatternNeverCrashes ==
  [][BadPatternCall => (~built'.panicked /\ RulesUnchanged)]_vars

\* the part of C27 that holds: WithRegexFilter with such a pattern returns
\* the receiver's rules and does not panic
C27_WithRegexFilterSkips ==
  [][(BadPatternCall /\ built'.fn = "WithRegexFilter") =>
       (~built'.panicked /\ RulesUnchanged)]_vars

\* RegexMaskFilter panicked on the pattern
C27_Panicked ==
  /\ built.fn = "RegexMaskFilter"
  /\ SyntaxError(built.pattern)
  /\ built.panicked

\* the step is a builder call
BuilderCall == built'.n # built.n

\* C28: the builders are copy-on-write; after a builder call every Config
\* other than the one the result is assigned to, the receiver included, has
\* the contents it had before the call (console output, conditions, field
\* filters, regex rules, rate limits), so no Config sees the additions made
\* to another.
C28_BuildersCopyOnWrite ==
  [][BuilderCall =>
       \A n \in DOMAIN configs :
         n # built'.dst =>
           View(configs'[n], maps', arrays') = View(configs[n], maps, arrays)
    ]_vars

\* the same for the conditions alone: violated when two Configs derived from
\* one base append into the spare capacity of one backing array
C28_ConditionsNotShared ==
  [][BuilderCall =>
       \A n \in DOMAIN configs :
         n # built'.dst =>
           View(configs'[n], maps', arrays').Conditions =
             View(configs[n], maps, arrays).Conditions
    ]_vars

\* the part of C28 that holds: the receiver keeps its scalar fields, its
\* conditions and its regex rules, and a Config whose map is nil is not
\* changed through that map
C28_ReceiverSlicesKept ==
  [][(BuilderCall /\ built'.src # built'.dst) =>
       LET before == View(configs[built'.src], maps, arrays)
           after == View(configs'[built'.src], maps', arrays')
       IN /\ after.ConsoleOutput = before.ConsoleOutput
          /\ after.Conditions = before.Conditions
          /\ after.RegexFilters = before.RegexFilters
          /\ configs[built'.src].FieldFilters = 0 =>
               after.FieldFilters = before.FieldFilters
          /\ configs[built'.src].RateLimits = 0 =>
               after.RateLimits = before.RateLimits
    ]_vars

\* one call a := base.WithFieldFilter(...) was made and base holds the filter
C28_ReceiverChanged ==
  /\ built.n = 1
  /\ built.fn = "WithFieldFilter"
  /\ built.src = "base"
  /\ built.dst = "a"
  /\ View(configs["base"], maps, arrays).FieldFilters #
       DefaultFilterConfig.FieldFilters

(***************************************************************************)
(* Claims about the lock of the Logger, checked under SpecLogger           *)
(***************************************************************************)
\* goroutine t is between l.mu.RLock() and l.mu.RUnlock()
HoldsShared(t) == lpc[t] \in {"Handle", "reset", "count"}

\* the step is t's comparison of today with l.currentDate
IsCompare(t) == lpc[t] = "idle" /\ lpc'[t] # "idle"

\* the step is a use of l.infoLogger or l.errorLogger by t
IsHandle(t) ==
  /\ lpc[t] = "Handle"
  /\ lpc'[t] # "Handle" \/ call'[t] # call[t]

\* the active day, the handlers and the file handles
RotationState ==
  <<currentDate, infoLogger, errorLogger, infoFile, errorFile>>

\* l.mu counts the goroutines between RLock and RUnlock
SharedCounted ==
  mu = Cardinality({ t \in Goroutines : HoldsShared(t) })

\* C29: rotation lock discipline; every read of the rotation state by a log
\* call (the comparison with the active day, the use of the current
\* handlers) is made while the caller holds the shared side of the lock, and
\* every change of the rotation state or of the level configuration is made
\* while no goroutine holds the shared side, under the exclusive side.
C29_RotationLockDiscipline ==
  /\ []SharedCounted
  /\ [][\A t \in Goroutines :
          (IsCompare(t) \/ IsHandle(t)) => HoldsShared(t)]_vars
  /\ [][(RotationState' # RotationState \/ config'.Debug # config.Debug) =>
          mu = 0]_vars

\* the part of C29 that holds: the handlers are used under the shared side
\* and the rotation state changes only while no goroutine holds it
C29_HandlersUnderLock ==
  /\ []SharedCounted
  /\ [][\A t \in Goroutines : IsHandle(t) => HoldsShared(t)]_vars
  /\ [][RotationState' # RotationState => mu = 0]_vars

\* a log call compared the dates without the lock, found the day unchanged,
\* and a rotation by another goroutine changed the active day before the
\* call took the shared side
C29_StaleCompare ==
  \E t \in Goroutines :
    /\ lpc[t] = "RLock"
    /\ log[call[t].id].rotate = "no"
    /\ log[call[t].id].today # currentDate

(***************************************************************************)
(* The process-wide logger: Init, SetGlobalLogger, Close and the global    *)
(* functions that delegate to it (global.go)                               *)
(***************************************************************************)
\* the most calls of functions of global.go a program makes
MaxGlobalOps == 3

\* the global functions that load the slot and delegate to the logger
GlobalFns ==
  {"Debug", "Info", "Warn", "Error", "With", "SetLevel", "Flush",
   "CleanupNow", "GetLogFiles"}

\* the global functions that return an error
ReturnsError == {"SetLevel", "Flush", "GetLogFiles"}

\* the global functions that return a value: a *Logger, a list of names
ReturnsValue == {"With", "GetLogFiles"}

\* a Logger as New returns it: Close not called, no method called
OpenedLogger == [closes |-> 0, calls |-> 0]

\* nothing completed yet
NothingDone == [k |-> 0, fn |-> "none", empty |-> FALSE, err |-> FALSE,
                ret |-> "none", panicked |-> FALSE]

\* no call is between its load of the slot and its use of the logger
NoGlobalCall == [n |-> 0, pc |-> "idle", fn |-> "none", logger |-> 0,
                 done |-> NothingDone]

\* Logger.Close on logger i; a Logger closed before returns an error
CloseLogger(ls, i) ==
  [ls EXCEPT ![i].closes = IF @ < 2 THEN @ + 1 ELSE @]

\* if defaultLogger != nil { defaultLogger.Close() }
ClosePrevious ==
  IF defaultLogger # 0 THEN CloseLogger(loggers, defaultLogger) ELSE loggers

\* a method of *Logger called on logger l, failing or not; on a nil receiver
\* the method dereferences l and panics
MethodCall(l, fn, fails) ==
  IF l = 0
  THEN [loggers |-> loggers, err |-> FALSE, ret |-> "none",
        panicked |-> TRUE]
  ELSE [loggers |-> [loggers EXCEPT ![l].calls = @ + 1],
        err |-> fails /\ fn \in ReturnsError,
        ret |-> IF fn \in ReturnsValue /\ ~(fails /\ fn \in ReturnsError)
                THEN "value" ELSE "nil",
        panicked |-> FALSE]

InitGlobal ==
  /\ defaultLogger = 0
  /\ loggers = <<>>
  /\ globalCall = NoGlobalCall
  /\ NoLocks
  /\ NoBuilder
  /\ NoRecord
  /\ NoSweep
  /\ NoSink
  /\ NoLogger

\* a function of global.go may be called
CanCall ==
  /\ globalCall.n < MaxGlobalOps
  /\ ~globalCall.done.panicked

\* the call of fn has returned
Done(fn, empty, err, ret, panicked) ==
  [k |-> globalCall.done.k + 1, fn |-> fn, empty |-> empty, err |-> err,
   ret |-> ret, panicked |-> panicked]

\* Init(config), with New succeeding or failing; under globalMu.Lock()
GlobalInit(newOK) ==
  /\ CanCall
  /\ loggers' = IF newOK THEN Append(ClosePrevious, OpenedLogger)
                ELSE ClosePrevious
  /\ defaultLogger' = IF newOK THEN Len(loggers) + 1 ELSE 0
  /\ globalCall' = [globalCall EXCEPT
                      !.n = @ + 1,
                      !.done = Done("Init", defaultLogger = 0, ~newOK,
                                    "none", FALSE)]
  /\ UNCHANGED <<filterVars, sweepVars, builderVars, sinkVars, loggerVars,
                 lockVars>>

\* SetGlobalLogger(logger): nil, a Logger made before, or a new one
SetGlobalLogger(logger) ==
  /\ CanCall
  /\ logger \in 0..(Len(loggers) + 1)
  /\ loggers' = IF logger = Len(loggers) + 1
                THEN Append(ClosePrevious, OpenedLogger)
                ELSE ClosePrevious
  /\ defaultLogger' = logger
  /\ globalCall' = [globalCall EXCEPT
                      !.n = @ + 1,
                      !.done = Done("SetGlobalLogger", defaultLogger = 0,
                                    FALSE, "none", FALSE)]
  /\ UNCHANGED <<filterVars, sweepVars, builderVars, sinkVars, loggerVars,
                 lockVars>>

\* Close(): closes the logger in the slot, returns its error and sets the
\* slot to nil; under globalMu.Lock()
GlobalClose(fails) ==
  /\ CanCall
  /\ loggers' = ClosePrevious
  /\ defaultLogger' = 0
  /\ globalCall' = [globalCall EXCEPT
                      !.n = @ + 1,
                      !.done = Done("Close", defaultLogger = 0,
                                    /\ defaultLogger # 0
                                    /\ \/ fails
                                       \/ loggers[defaultLogger].closes > 0,
                                    "none", FALSE)]
  /\ UNCHANGED <<filterVars, sweepVars, builderVars, sinkVars, loggerVars,
                 lockVars>>

\* globalMu.RLock(); logger := defaultLogger; globalMu.RUnlock()
GlobalLoad(fn) ==
  /\ CanCall
  /\ globalCall.pc = "idle"
  /\ globalCall' = [globalCall EXCEPT !.n = @ + 1, !.pc = "loaded",
                                      !.fn = fn, !.logger = defaultLogger]
  /\ UNCHANGED <<defaultLogger, loggers>>
  /\ UNCHANGED <<filterVars, sweepVars, builderVars, sinkVars, loggerVars,
                 lockVars>>

\* the rest of a global function without the test for nil
GlobalDelegate_NoNilCheck(fails) ==
  /\ globalCall.pc = "loaded"
  /\ LET r == MethodCall(globalCall.logger, globalCall.fn, fails)
     IN /\ loggers' = r.loggers
        /\ globalCall' = [globalCall EXCEPT
                            !.pc = "idle",
                            !.done = Done(globalCall.fn,
                                          globalCall.logger = 0, r.err,
                                          r.ret, r.panicked)]
  /\ UNCHANGED defaultLogger
  /\ UNCHANGED <<filterVars, sweepVars, builderVars, sinkVars, loggerVars,
                 lockVars>>

\* if logger != nil { return logger.fn(...) }; return nil
GlobalDelegate(fails) ==
  /\ globalCall.pc = "loaded"
  /\ LET r == IF globalCall.logger # 0
              THEN MethodCall(globalCall.logger, globalCall.fn, fails)
              ELSE [loggers |-> loggers, err |-> FALSE, ret |-> "nil",
                    panicked |-> FALSE]
     IN /\ loggers' = r.loggers
        /\ globalCall' = [globalCall EXCEPT
                            !.pc = "idle",
                            !.done = Done(globalCall.fn,
                                          globalCall.logger = 0, r.err,
                                          r.ret, r.panicked)]
  /\ UNCHANGED defaultLogger
  /\ UNCHANGED <<filterVars, sweepVars, builderVars, sinkVars, loggerVars,
                 lockVars>>

NextGlobal ==
  \/ \E newOK \in BOOLEAN : GlobalInit(newOK)
  \/ \E logger \in 0..MaxGlobalOps : SetGlobalLogger(logger)
  \/ \E fails \in BOOLEAN : GlobalClose(fails)
  \/ \E fn \in GlobalFns : GlobalLoad(fn)
  \/ \E fails \in BOOLEAN : GlobalDelegate(fails)

SpecGlobal == InitGlobal /\ [][NextGlobal]_vars

(***************************************************************************)
(* Claims about the global logger, checked under SpecGlobal                *)
(***************************************************************************)
\* the step is the return of a call of fn
Completes(fn) ==
  /\ globalCall'.done.k # globalCall.done.k
  /\ globalCall'.done.fn = fn

\* the step closes the logger that was in the slot, if there was one
ClosesInstalled ==
  defaultLogger # 0 =>
    loggers'[defaultLogger] = CloseLogger(loggers, defaultLogger)[defaultLogger]

\* C30: global logger lifecycle; Init installs a new logger after closing
\* the previous one (a failed Init leaves the slot empty), Close closes the
\* installed logger and clears the slot, a global function that finds the
\* slot empty changes nothing and returns nil, no call panics, and a Close
\* that follows a Close returns success.
C30_GlobalLifecycle ==
  /\ [][Completes("Init") =>
          /\ ClosesInstalled
          /\ ~globalCall'.done.err =>
               /\ defaultLogger' = Len(loggers) + 1
               /\ loggers'[defaultLogger'] = OpenedLogger
          /\ globalCall'.done.err => defaultLogger' = 0]_vars
  /\ [][Completes("Close") =>
          /\ ClosesInstalled
          /\ defaultLogger' = 0
          /\ defaultLogger = 0 =>
               (loggers' = loggers /\ ~globalCall'.done.err)]_vars
  /\ [][\A fn \in GlobalFns :
          (Completes(fn) /\ globalCall'.done.empty) =>
            /\ loggers' = loggers
            /\ defaultLogger' = defaultLogger
            /\ ~globalCall'.done.err
            /\ globalCall'.done.ret = "nil"]_vars
  /\ [](~globalCall.done.panicked)
  /\ [][(globalCall.done.fn = "Close" /\ Completes("Close")) =>
          ~globalCall'.done.err]_vars

\* C30 witness: Init installed a logger, Close closed it, and a third call
\* found the slot empty and returned nil.
C30_Witness ==
  /\ globalCall.done.k = 3
  /\ globalCall.done.empty
  /\ ~globalCall.done.err
  /\ globalCall.done.fn \in GlobalFns \cup {"Close"}
  /\ defaultLogger = 0
  /\ Len(loggers) = 1
  /\ loggers[1] = [closes |-> 1, calls |-> 0]


(***************************************************************************)
(* Invariants of the bufferedWriter (buffer.go), checked under SpecSink    *)
(***************************************************************************)
\* C31: buffer bound; in buffering mode, whenever a Write returns, with or
\* without an error, the accumulated buffer length does not exceed capacity.
C31_BufferBound ==
  [][ \A w \in Writers :
        ( IsWrite(w) /\ size > 0 ) => Len(buffer') <= size ]_vars

\* the part of C31 that holds: a Write that returns no error leaves fewer
\* bytes in the buffer than its capacity
C31_BoundWithoutError ==
  [][ \A w \in Writers :
        ( IsWrite(w) /\ size > 0 /\ ~last'.err ) => Len(buffer') < size ]_vars

\* C31 counterexample: a Write has returned an error and the buffer holds more
\* bytes than its capacity
C31_Overfull ==
  ~( /\ size > 0
     /\ last.op = "Write" /\ last.err
     /\ Len(buffer) > size )

\* C32: byte conservation and order; in every reachable state the destination
\* content followed by the buffer content is the concatenation of the payloads
\* of the Writes accepted so far, in the order in which they held bw.mu, and
\* every step that changes the destination of a buffering sink hands it the
\* whole buffer in one write and leaves the buffer empty.
C32_ByteConservation ==
  /\ [](Flatten(dest) \o buffer = Flatten(accepted))
  /\ [][ dest' # dest =>
           /\ Len(dest') = Len(dest) + 1
           /\ SubSeq(dest', 1, Len(dest)) = dest
           /\ size > 0 => /\ buffer' = <<>>
                          /\ \/ dest'[Len(dest')] = buffer
                             \/ \E w \in Writers :
                                  /\ IsWrite(w)
                                  /\ dest'[Len(dest')] = buffer \o warg[w] ]_vars

\* C32 witness: two different payloads were accepted, a flush failed, and the
\* destination then received both in one write, in the order of acceptance.
C32_Witness ==
  /\ size > 0
  /\ hist.failed
  /\ Len(accepted) = 2
  /\ accepted[1] # accepted[2]
  /\ buffer = <<>>
  /\ dest = << accepted[1] \o accepted[2] >>
  /\ last.op = "Close"

\* the level markers of both encodings
Markers == { TextMarker(l) : l \in Levels } \cup { JSONMarker(l) : l \in Levels }

\* the message and attribute text of the serialized record p holds no marker
MarkerFreeText(p) == \A i \in 2..Len(p) : p[i] \notin Markers

\* C33: level detection is exact; for every serialized record handed to the
\* Write of a buffering sink and every flush-on-level threshold, the level
\* trigger fires if and only if the record's own level is at or above the
\* threshold, whatever text the message or the attribute values hold.
C33_LevelDetectionExact ==
  \A w \in Writers :
    ( wpc[w] = "Write" /\ size > 0 )
    => ( shouldFlushImmediately(warg[w], flushOnLevel)
         <=> RecordLevel(warg[w]) >= flushOnLevel )

\* the part of C33 that holds: the detection is exact for records whose
\* message and attribute text holds no level marker
C33_ExactWithoutMarkerInText ==
  \A w \in Writers :
    ( wpc[w] = "Write" /\ size > 0 /\ MarkerFreeText(warg[w]) )
    => ( shouldFlushImmediately(warg[w], flushOnLevel)
         <=> RecordLevel(warg[w]) >= flushOnLevel )

\* C33 counterexample state: an Info record below the threshold was flushed by
\* the Write that took it, with the buffer below capacity
C33_Misfire ==
  ~( /\ size > 0
     /\ timerPc = "none"
     /\ last.op = "Write" /\ ~last.err
     /\ Len(accepted) = 1
     /\ RecordLevel(accepted[1]) < flushOnLevel
     /\ Len(accepted[1]) < size
     /\ dest = << accepted[1] >> )


(***************************************************************************)
(* The rate limit and the conditions of one filteredHandler (buffer.go)    *)
(***************************************************************************)
\* a Logger with a limit of one Info record per two ticks and a condition on
\* the message
QuotaConfigs ==
  { WithDebugJSON(
      WithRateLimit(WithMessageContainsCondition(DefaultFilterConfig, "m"),
                    LevelInfo, 1, 2),
      TRUE, FALSE) }

\* Info records whose message passes and fails the condition, and a record of
\* a level without a limit
QuotaCalls ==
  { [level |-> LevelInfo, msg |-> <<"m">>, attrs |-> <<>>],
    [level |-> LevelInfo, msg |-> <<>>, attrs |-> <<>>],
    [level |-> LevelError, msg |-> <<>>, attrs |-> <<>>] }

InitQuota == NewLogger_From(QuotaConfigs)

\* two goroutines logging through that Logger
NextQuota ==
  \/ \E t \in Goroutines, c \in QuotaCalls : LogCall(t, c)
  \/ \E t \in Goroutines : checkDateRotation(t, "ok")
  \/ \E t \in Goroutines : RLock(t)
  \/ \E t \in Goroutines : Handle(t)
  \/ \E t \in Goroutines : checkRateLimitReset(t)
  \/ \E t \in Goroutines : checkRateLimitCount(t)
  \/ \E t, u \in Goroutines : concurrentMapWrites(t, u)
  \/ Tick

SpecQuota == InitQuota /\ [][NextQuota]_vars

\* the evaluations by a handler that have reached the decision of
\* checkRateLimit, for level L in the window that started at s
QuotaUsed(L, s) ==
  Cardinality({ x \in (DOMAIN log) \X {"info", "error"} :
                  LET ev == IF x[2] = "info" THEN log[x[1]].info
                            ELSE log[x[1]].error
                  IN /\ log[x[1]].level = L
                     /\ ev.rl \in {"pass", "drop"}
                     /\ ev.win = s })

\* the evaluation goroutine t is making, as the step leaves it
EvalAfter(t) ==
  IF call[t].stream = "info" THEN log'[call[t].id].info
  ELSE log'[call[t].id].error

\* the decision of checkRateLimit by t: an evaluation the limit passes takes
\* one unit of the level's counter whatever the conditions then say, and an
\* evaluation made after MaxCount evaluations of the window is not emitted
QuotaStep(t) ==
  LET L == call[t].level
      e == config.Filters.RateLimits[L]
  IN /\ EvalAfter(t).rl = "pass"
        => config'.Filters.RateLimits[L].counter = e.counter + 1
     /\ EvalAfter(t).out => EvalAfter(t).rl = "pass"
     /\ QuotaUsed(L, rateLimit[t].rl.lastReset) >= e.MaxCount
        => ~EvalAfter(t).out

\* C34: the rate limit is evaluated before the conditions; every evaluation
\* of a record at a rate-limited level takes a unit of that level's counter
\* before any condition is checked, so records a condition drops consume
\* quota, and after N such records within a window a condition-passing record
\* of that level is dropped.
C34_RateLimitBeforeConditions ==
  [][ \A t \in Goroutines :
        ( lpc[t] = "count" /\ lpc'[t] # "count" ) => QuotaStep(t) ]_vars

\* the part of C34 that holds: the same for an evaluation that does not
\* overlap another log call
C34_SequentialQuota ==
  [][ \A t \in Goroutines :
        ( /\ lpc[t] = "count" /\ lpc'[t] # "count"
          /\ Running = {call[t].id}
          /\ ~log[call[t].id].conc )
        => QuotaStep(t) ]_vars

\* a record the condition dropped took the only unit of the window, and the
\* next record, which passes the condition, was dropped by the limit
C34_QuotaConsumed ==
  ~( /\ Len(log) = 2
     /\ Running = {}
     /\ ~log[1].conc /\ ~log[2].conc
     /\ log[1].level = LevelInfo /\ log[2].level = LevelInfo
     /\ log[1].info.rl = "pass" /\ ~log[1].info.out
     /\ log[2].info.rl = "drop"
     /\ log[2].info.win = log[1].info.win )

\* C34 counterexample state: two Info records of one window passed the limit
\* of one, and the second was emitted after the first had returned
C34_EmittedOverQuota ==
  ~( /\ Len(log) = 2
     /\ Running = {}
     /\ log[1].level = LevelInfo /\ log[2].level = LevelInfo
     /\ log[1].info.rl = "pass" /\ ~log[1].info.out
     /\ log[2].info.rl = "pass" /\ log[2].info.out
     /\ log[2].info.win = log[1].info.win )


(***************************************************************************)
(* Attributes attached with Logger.With, then one record through Handle    *)
(***************************************************************************)
\* the filter configurations, the arguments of With and the records
DerivedInputs ==
  [fc : [Conditions : { DefaultFilterConfig.Conditions,
                        WithAttributeCondition(DefaultFilterConfig, "password",
                                               <<"secret">>).Conditions },
         FieldFilters : FieldFilterMaps,
         RegexFilters : {DefaultFilterConfig.RegexFilters},
         RateLimits : {DefaultFilterConfig.RateLimits}],
   level : {LevelInfo}, msg : {<<"m">>}, attrs : AttrSeqs,
   with : { as \in AttrSeqs : Len(as) <= 1 }]

InitDerived ==
  /\ record \in DerivedInputs
  /\ emitted = NotEmitted
  /\ handled = FALSE
  /\ derived = NoDerived
  /\ NoSweep
  /\ NoBuilder
  /\ NoGlobal
  /\ NoLocks
  /\ NoSink
  /\ NoLogger

\* filteredHandler.WithAttrs(attrs): handler: h.handler.WithAttrs(attrs);
\* the result is what the inner handler of the new filteredHandler holds
WithAttrs(fc, attrs) == attrs

\* Logger.With(args...): l.infoLogger.With(args...), which calls WithAttrs on
\* the filteredHandler when there are arguments
With ==
  /\ ~handled
  /\ ~derived.made
  /\ derived' = [made |-> TRUE,
                 attrs |-> IF record.with = <<>> THEN <<>>
                           ELSE WithAttrs(record.fc, record.with)]
  /\ UNCHANGED <<record, emitted, handled, sweepVars, builderVars, globalVars,
                 sinkVars, loggerVars,
                 lockVars>>

\* what the log call puts out for input r through a handler whose inner
\* handler holds the attributes pre: filteredHandler.Handle filters the
\* attributes of the record, and the inner handler writes its own attributes
\* followed by those of the record it is given
OutputOf(r, pre) ==
  IF shouldLog(r.fc.Conditions, r.level, r.msg, r.attrs)
  THEN [logged |-> TRUE, attrs |-> pre \o applyFieldFilters(r.fc, r.attrs)]
  ELSE NotEmitted

\* a log call on the logger in hand, derived or not
HandleDerived ==
  /\ ~handled
  /\ handled' = TRUE
  /\ emitted' = OutputOf(record, derived.attrs)
  /\ UNCHANGED <<record, derived, sweepVars, builderVars, globalVars, sinkVars,
                 loggerVars,
                 lockVars>>

NextDerived ==
  \/ With
  \/ HandleDerived

SpecDerived == InitDerived /\ [][NextDerived]_vars

\* the inputs that differ from the record in hand in one value of an
\* attribute whose key has a registered filter
SecretVariants ==
  { [record EXCEPT !.attrs[i].value = v] :
      i \in { j \in 1..Len(record.attrs) : Filtered(record.attrs[j].key) },
      v \in Values }
  \cup
  { [record EXCEPT !.with[i].value = v] :
      i \in { j \in 1..Len(record.with) : Filtered(record.with[j].key) },
      v \in Values }

\* the output of the same calls made with input r
RunWith(r) ==
  OutputOf(r, IF derived.made /\ r.with # <<>>
              THEN WithAttrs(r.fc, r.with) ELSE <<>>)

\* the original value of an attribute with a filtered key attached with With
\* is not emitted
AttachedHidden ==
  derived.made =>
    \A i \in 1..Len(record.with) :
      Filtered(record.with[i].key) =>
        \A j \in 1..Len(emitted.attrs) : emitted.attrs[j] # record.with[i]

\* C35: masking cannot be bypassed; for every key with a registered mask or
\* redaction filter, the original value of an attribute with that key is not
\* in the output, whether the attribute was passed to the log call or
\* attached before through With, and two runs that differ only in that value
\* produce the same output.
C35_MaskingNotBypassed ==
  handled =>
    /\ OriginalHidden
    /\ AttachedHidden
    /\ \A r \in SecretVariants : RunWith(r) = emitted

\* no attribute with a filtered key was attached through With
NothingSecretAttached ==
  derived.made =>
    \A i \in 1..Len(record.with) : ~Filtered(record.with[i].key)

\* no condition tests an attribute whose key has a filter
NoConditionOnSecret ==
  \A i \in 1..Len(record.fc.Conditions) :
    record.fc.Conditions[i].kind = "attr"
      => ~Filtered(record.fc.Conditions[i].key)

\* the part of C35 that holds: for attributes passed to the log call the
\* original value is never in the output, and with no condition on the
\* filtered key the output does not depend on it
C35_CallAttributesMasked ==
  (handled /\ NothingSecretAttached) =>
    /\ OriginalHidden
    /\ NoConditionOnSecret => \A r \in SecretVariants : RunWith(r) = emitted

\* C35 counterexample state: the key password has a mask, and the value
\* attached with With("password", "secret") is in the output of a later call
C35_SecretInOutput ==
  ~( /\ handled
     /\ emitted.logged
     /\ derived.made
     /\ record.fc.FieldFilters["password"] = "mask"
     /\ record.with = <<[key |-> "password", value |-> <<"secret">>]>>
     /\ record.attrs = <<>>
     /\ emitted.attrs = <<[key |-> "password", value |-> <<"secret">>]>> )


(***************************************************************************)
(* A Logger and the Logger that With returned (part_000: With, initLoggers) *)
(***************************************************************************)
\* the configuration of the parent: debug level, text format, no filters
WithConfigs == { WithDebugJSON(DefaultFilterConfig, TRUE, FALSE) }

\* the arguments of With
WithArgs == <<[key |-> "user", value |-> <<"john">>]>>

InitWith == NewLogger_From(WithConfigs)

\* With has returned a Logger
Made == DOMAIN derived # {}

\* Logger.With(args...): a new Logger with copies of config, infoFile,
\* errorFile and currentDate, and the two slog.Loggers with the attributes
\* added to their handlers
LoggerWith ==
  /\ ~fatal
  /\ ~Made
  /\ mu = 0
  /\ derived' = [with |-> WithArgs,
                 Debug |-> config.Debug,
                 JSONFormat |-> config.JSONFormat,
                 infoLogger |-> [handler |-> infoLogger, attrs |-> WithArgs],
                 errorLogger |-> [handler |-> errorLogger, attrs |-> WithArgs],
                 infoFile |-> infoFile,
                 errorFile |-> errorFile,
                 currentDate |-> currentDate,
                 calls |-> 0]
  /\ UNCHANGED <<record, emitted, handled, sweepVars, builderVars, globalVars,
                 sinkVars, loggerVars,
                 lockVars>>

\* initLoggers on the Logger that With returned, both files opening: it
\* closes the files it holds, opens the files of today and makes new handlers
\* from its config
DerivedInit(d) ==
  LET today == DateOf(clock)
      newInfo == [kind |-> "info", date |-> today, gen |-> inits + 1]
      newError == [kind |-> "error", date |-> today, gen |-> inits + 1]
      level == IF d.Debug THEN LevelDebug ELSE LevelWarn
  IN [d EXCEPT !.infoFile = newInfo,
               !.errorFile = newError,
               !.infoLogger = [handler |-> NewLogger(level, d.JSONFormat,
                                                     newInfo),
                               attrs |-> <<>>],
               !.errorLogger = [handler |-> NewLogger(level, d.JSONFormat,
                                                      newError),
                                attrs |-> <<>>],
               !.currentDate = today]

\* Info(msg) on the Logger that With returned: checkDateRotation, then
\* l.infoLogger.Info; the handler writes its attributes after the message
DerivedInfo(msg) ==
  /\ ~fatal
  /\ Made
  /\ derived.calls < MaxOps
  /\ LET rotate == DateOf(clock) # derived.currentDate
         d == IF rotate THEN DerivedInit(derived) ELSE derived
         shut == IF rotate
                 THEN closed \cup ({derived.infoFile, derived.errorFile}
                                   \ {NoFile})
                 ELSE closed
         fs == IF rotate
               THEN OpenFile(OpenFile(files, FileName(d.infoFile)),
                             FileName(d.errorFile))
               ELSE files
         h == d.infoLogger.handler
         p == Format(h.JSONFormat, LevelInfo,
                     msg \o AttrTokens(d.infoLogger.attrs))
     IN /\ closed' = shut
        /\ inits' = IF rotate THEN inits + 1 ELSE inits
        /\ derived' = [d EXCEPT !.calls = @ + 1]
        /\ IF LevelInfo < h.Level
           THEN /\ files' = fs
                /\ UNCHANGED stdout
           ELSE /\ stdout' = Append(stdout, p)
                /\ files' = IF h.file = NoFile \/ h.file \in shut THEN fs
                            ELSE [fs EXCEPT ![FileName(h.file)].data =
                                              Append(@, p)]
  /\ UNCHANGED <<config, infoLogger, errorLogger, infoFile, errorFile,
                 currentDate, mu, clock, stderr, lpc, call, rateLimit, fatal,
                 ops, lastOp, log>>
  /\ UNCHANGED <<record, emitted, handled, sweepVars, builderVars, globalVars,
                 sinkVars,
                 lockVars>>

\* one goroutine using the parent and the Logger that With returned
NextWith ==
  \/ LoggerWith
  \/ \E msg \in RecordMessages : DerivedInfo(msg)
  \/ \E c \in LogCalls : LogCall("g1", c)
  \/ checkDateRotation("g1", "ok")
  \/ RLock("g1")
  \/ Handle("g1")
  \/ \E level \in Levels : SetLevel(level, "ok")
  \/ RotateNow("ok")
  \/ Tick

SpecWith == InitWith /\ [][NextWith]_vars

\* the step is a log call through the Logger that With returned, of a
\* record its minimum level lets through
IsDerivedInfo ==
  /\ Made
  /\ derived'.calls = derived.calls + 1
  /\ derived.Debug

\* the step appends to the all-levels file of today a record that carries
\* the attributes attached by With
WrittenWithAttributes ==
  LET name == <<"info", DateOf(clock)>>
  IN /\ Len(files'[name].data) = Len(files[name].data) + 1
     /\ \E msg \in RecordMessages :
          files'[name].data[Len(files'[name].data)] =
            Format(derived.JSONFormat, LevelInfo,
                   msg \o AttrTokens(derived.with))

\* C36: a derived logger stays usable across rotation; after the parent has
\* reinitialized (RotateNow, SetLevel or a day change) and after the derived
\* logger itself has detected a day change, every record logged through the
\* logger obtained from With is written to the currently open file and still
\* carries the attributes attached by With.
C36_DerivedSurvivesRotation ==
  [][ IsDerivedInfo => WrittenWithAttributes ]_vars

\* the part of C36 that holds: while the derived logger uses the handlers
\* With gave it, the file they write to is open and the day has not changed,
\* its records are written with the attributes
C36_UsableUntilRotation ==
  [][ ( /\ IsDerivedInfo
        /\ derived.infoLogger.attrs = derived.with
        /\ derived.infoLogger.handler.file \notin closed
        /\ derived.currentDate = DateOf(clock) )
      => WrittenWithAttributes ]_vars

\* C36 counterexample state: the parent rotated, and a record logged through
\* the derived logger afterwards is in no file
C36_RecordLost ==
  ~( /\ Made
     /\ derived.calls = 1
     /\ lastOp.op = "RotateNow"
     /\ Len(stdout) = 1
     /\ \A n \in FileNames : files[n].data = <<>> )

\* C36 counterexample state: the derived logger detected a day change, and
\* the record it then wrote carries no attribute
C36_AttributesLost ==
  ~( /\ Made
     /\ derived.calls = 1
     /\ derived.currentDate = 1
     /\ derived.infoLogger.attrs = <<>>
     /\ files[<<"info", 1>>].data = << Format(FALSE, LevelInfo, <<"m">>) >> )


(***************************************************************************)
(* The two streams of a Warn or Error call, checked under SpecLogger       *)
(***************************************************************************)
\* the Warn and Error calls that have returned
Mirrored == { i \in DOMAIN log : i \notin Running /\ log[i].level >= LevelWarn }

\* C37: mirroring is consistent; for every Warn or Error call that has
\* returned, under any filter configuration, the all-levels handler and the
\* error handler took the same admission decision: the record was emitted to
\* both streams or to neither.
C37_MirroringConsistent ==
  \A i \in Mirrored : log[i].info.out = log[i].error.out

\* the part of C37 that holds: the two decisions agree for every level that
\* has no rate limit
C37_ConsistentWithoutRateLimit ==
  \A i \in Mirrored :
    ~config.Filters.RateLimits[log[i].level].set
      => log[i].info.out = log[i].error.out

\* C37 counterexample state: an Error call has returned; the all-levels
\* handler emitted the record and the error handler dropped it on the limit
C37_OnlyAllLevels ==
  ~( \E i \in Mirrored :
       /\ log[i].level = LevelError
       /\ log[i].info.rl = "pass" /\ log[i].info.out
       /\ log[i].error.rl = "drop" /\ ~log[i].error.out
       /\ Len(stdout) = 1 /\ stderr = <<>> )


(***************************************************************************)
(* Lock operations of the calls, goroutine by goroutine (part_000,         *)
(* cleanup.go, buffer.go, global.go)                                       *)
(***************************************************************************)
\* calls one goroutine makes
MaxCalls == 2

Threads == {"a", "b"}

\* l.mu and globalMu are sync.RWMutex, bw.mu is a sync.Mutex
Mutexes == {"l.mu", "bw.mu", "globalMu"}

\* one operation of a call: a lock operation on m, a step that takes no
\* lock, or a branch that may skip the next n operations
Ins(i, m) == [i |-> i, m |-> m, n |-> 0]

Maybe(n) == [i |-> "maybe", m |-> "", n |-> n]

\* Logger.initLoggers: l.mu.Lock(); defer l.mu.Unlock(); files and handlers
initLoggersCode ==
  << Ins("Lock", "l.mu"), Ins("do", "initLoggers"), Ins("Unlock", "l.mu") >>

\* Logger.checkDateRotation: if today != l.currentDate { l.initLoggers() }
checkDateRotationCode == << Maybe(Len(initLoggersCode)) >> \o initLoggersCode

\* Logger.Debug, Info, Warn, Error
LogCode ==
  checkDateRotationCode
  \o << Ins("RLock", "l.mu"), Ins("do", "Handle"), Ins("RUnlock", "l.mu") >>

\* Logger.SetLevel, Logger.SetDebug
SetLevelCode == << Ins("do", "config.Debug") >> \o initLoggersCode

\* Logger.RotateNow
RotateNowCode == initLoggersCode

\* Logger.Close
LoggerCloseCode ==
  << Ins("Lock", "l.mu"), Ins("do", "Close"), Ins("Unlock", "l.mu") >>

\* performCleanup that holds l.mu.RLock() from entry to return
performCleanupCode_UnderRLock ==
  << Ins("RLock", "l.mu"), Ins("do", "ReadDir"), Maybe(Len(LogCode)) >>
  \o LogCode \o << Ins("RUnlock", "l.mu") >>

\* Logger.performCleanup: os.ReadDir, then for a file that is removed, or
\* on an error, l.Info or l.Error
performCleanupCode ==
  << Ins("do", "ReadDir"), Maybe(Len(LogCode)) >> \o LogCode

\* bufferedWriter.Write
WriteCode ==
  << Ins("Lock", "bw.mu"), Ins("do", "Write"), Ins("Unlock", "bw.mu") >>

\* bufferedWriter.Flush, called by the application or by autoFlush at a tick
FlushCode ==
  << Ins("Lock", "bw.mu"), Ins("do", "flushLocked"), Ins("Unlock", "bw.mu") >>

\* bufferedWriter.Close: bw.once.Do(...); return bw.Flush()
SinkCloseCode == << Ins("do", "once.Do") >> \o FlushCode

\* Init(config): globalMu.Lock(); close the logger in the slot if there is
\* one; New(config), which runs initLoggers; globalMu.Unlock()
GlobalInitCode ==
  << Ins("Lock", "globalMu"), Maybe(Len(LoggerCloseCode)) >>
  \o LoggerCloseCode \o << Ins("do", "New") >> \o initLoggersCode
  \o << Ins("Unlock", "globalMu") >>

\* Close() of global.go
GlobalCloseCode ==
  << Ins("Lock", "globalMu"), Maybe(Len(LoggerCloseCode)) >>
  \o LoggerCloseCode \o << Ins("Unlock", "globalMu") >>

\* Debug, Info, Warn, Error of global.go: load the slot under RLock, then
\* call the logger if there is one
GlobalLogCode ==
  << Ins("RLock", "globalMu"), Ins("do", "load"), Ins("RUnlock", "globalMu"),
     Maybe(Len(LogCode)) >> \o LogCode

\* the calls of the model and their operations
Code ==
  [ Log |-> LogCode,
    SetLevel |-> SetLevelCode,
    RotateNow |-> RotateNowCode,
    performCleanup |-> performCleanupCode,
    Write |-> WriteCode,
    Flush |-> FlushCode,
    SinkClose |-> SinkCloseCode,
    GlobalInit |-> GlobalInitCode,
    GlobalClose |-> GlobalCloseCode,
    GlobalLog |-> GlobalLogCode ]

Idle(calls, waited) ==
  [op |-> "idle", pc |-> 0, got |-> FALSE, calls |-> calls,
   waited |-> waited]

InitLocks ==
  /\ threads = [t \in Threads |-> Idle(0, FALSE)]
  /\ locks = [m \in Mutexes |-> [r |-> 0, w |-> "none"]]
  /\ NoGlobal
  /\ NoBuilder
  /\ NoRecord
  /\ NoSweep
  /\ NoSink
  /\ NoLogger

\* the operation goroutine t is at
At(t) == Code[threads[t].op][threads[t].pc]

InCall(t) == threads[t].op # "idle"

Executing(t) == InCall(t) /\ threads[t].pc <= Len(Code[threads[t].op])

OtherVars ==
  <<sinkVars, loggerVars, filterVars, sweepVars, builderVars, globalVars>>

\* goroutine t enters a call
Call(t, op) ==
  /\ ~InCall(t)
  /\ threads[t].calls < MaxCalls
  /\ threads' = [threads EXCEPT ![t] =
                   [op |-> op, pc |-> 1, got |-> FALSE,
                    calls |-> threads[t].calls + 1, waited |-> FALSE]]
  /\ UNCHANGED <<locks, OtherVars>>

\* Lock(), first half: the goroutine becomes the one writer; from now on
\* RLock() of other goroutines blocks
LockAnnounce(t) ==
  /\ Executing(t)
  /\ At(t).i = "Lock"
  /\ ~threads[t].got
  /\ locks[At(t).m].w = "none"
  /\ locks' = [locks EXCEPT ![At(t).m].w = t]
  /\ threads' = [threads EXCEPT ![t].got = TRUE,
                                ![t].waited = @ \/ locks[At(t).m].r > 0]
  /\ UNCHANGED OtherVars

\* Lock(), second half: the readers that held the lock have left
LockAcquire(t) ==
  /\ Executing(t)
  /\ At(t).i = "Lock"
  /\ threads[t].got
  /\ locks[At(t).m].r = 0
  /\ threads' = [threads EXCEPT ![t].got = FALSE, ![t].pc = @ + 1]
  /\ UNCHANGED <<locks, OtherVars>>

Unlock(t) ==
  /\ Executing(t)
  /\ At(t).i = "Unlock"
  /\ locks' = [locks EXCEPT ![At(t).m].w = "none"]
  /\ threads' = [threads EXCEPT ![t].pc = @ + 1]
  /\ UNCHANGED OtherVars

\* RLock(): blocks while a writer holds the lock or waits for it
RWMutexRLock(t) ==
  /\ Executing(t)
  /\ At(t).i = "RLock"
  /\ locks[At(t).m].w = "none"
  /\ locks' = [locks EXCEPT ![At(t).m].r = @ + 1]
  /\ threads' = [threads EXCEPT ![t].pc = @ + 1]
  /\ UNCHANGED OtherVars

RUnlock(t) ==
  /\ Executing(t)
  /\ At(t).i = "RUnlock"
  /\ locks' = [locks EXCEPT ![At(t).m].r = @ - 1]
  /\ threads' = [threads EXCEPT ![t].pc = @ + 1]
  /\ UNCHANGED OtherVars

\* a step under the locks held: the destination and the file system return
Do(t) ==
  /\ Executing(t)
  /\ At(t).i = "do"
  /\ threads' = [threads EXCEPT ![t].pc = @ + 1]
  /\ UNCHANGED <<locks, OtherVars>>

\* a branch: the guarded calls are made or skipped
Branch(t) ==
  /\ Executing(t)
  /\ At(t).i = "maybe"
  /\ \E skip \in BOOLEAN :
       threads' = [threads EXCEPT ![t].pc =
                     IF skip THEN @ + 1 + At(t).n ELSE @ + 1]
  /\ UNCHANGED <<locks, OtherVars>>

\* the call returns
Return(t) ==
  /\ InCall(t)
  /\ threads[t].pc > Len(Code[threads[t].op])
  /\ threads' = [threads EXCEPT ![t] =
                   Idle(threads[t].calls, threads[t].waited)]
  /\ UNCHANGED <<locks, OtherVars>>

\* goroutine t goes on with the call it is in
Step(t) ==
  \/ LockAnnounce(t)
  \/ LockAcquire(t)
  \/ Unlock(t)
  \/ RWMutexRLock(t)
  \/ RUnlock(t)
  \/ Do(t)
  \/ Branch(t)
  \/ Return(t)

NextLocks ==
  \/ \E t \in Threads, op \in DOMAIN Code : Call(t, op)
  \/ \E t \in Threads : Step(t)

\* the scheduler runs every goroutine that can run
SpecLocks ==
  InitLocks /\ [][NextLocks]_vars /\ \A t \in Threads : WF_vars(Step(t))

\* C38: deadlock freedom; with a destination that always returns, under
\* every interleaving of log calls, RotateNow and SetLevel, retention sweeps,
\* sink Write, Flush and Close, timer flushes and global Init and Close, a
\* goroutine that has entered a call eventually returns from it: none waits
\* forever for l.mu, bw.mu or globalMu.
C38_DeadlockFreedom ==
  \A t \in Threads : InCall(t) ~> ~InCall(t)

\* C38 witness: a goroutine has returned from a call in which it had to wait
\* for the readers of a lock, while the other goroutine is in a call.
C38_Witness ==
  /\ ~InCall("a")
  /\ threads["a"].waited
  /\ InCall("b")


(***************************************************************************)
(* CombineConditions and AnyCondition (filters.go)                         *)
(***************************************************************************)
\* arguments of one combinator call
MaxArity == 2

\* a LogCondition: one of the conditions of filters.go, or a combinator
\* applied to LogConditions
Cond(c) == [kind |-> "cond", c |-> c, args |-> <<>>]

CombineConditionsOf(args) == [kind |-> "all", c |-> <<>>, args |-> args]

AnyConditionOf(args) == [kind |-> "any", c |-> <<>>, args |-> args]

\* LevelCondition(slog.LevelWarn), MessageContainsCondition("important")
PlainConditions ==
  { Cond(WithLevelCondition(DefaultFilterConfig, LevelWarn).Conditions[1]),
    Cond(WithMessageContainsCondition(DefaultFilterConfig,
                                      "important").Conditions[1]) }

ArgLists(S) == UNION { [1..n -> S] : n \in 0..MaxArity }

\* combinators over S
Combined(S) ==
  { CombineConditionsOf(args) : args \in ArgLists(S) }
  \cup { AnyConditionOf(args) : args \in ArgLists(S) }

\* combinators of conditions, and combinators of those
Nested(S) == S \cup Combined(S \cup Combined(S))

CombineInputs(S) ==
  [cond : Nested(S), level : {LevelInfo, LevelError}, msg : RecordMessages,
   attrs : {<<>>}]

RECURSIVE CallCondition(_, _)
RECURSIVE CombineLoop(_, _, _, _)
RECURSIVE AnyLoop(_, _, _, _)

\* the loop of CombineConditions from argument i on: return false at the
\* first condition that returns false, true after the last
CombineLoop(args, i, r, calls) ==
  IF i > Len(args) THEN [v |-> TRUE, calls |-> calls]
  ELSE LET x == CallCondition(args[i], r)
       IN IF ~x.v THEN [v |-> FALSE, calls |-> calls \o x.calls]
          ELSE CombineLoop(args, i + 1, r, calls \o x.calls)

\* the loop of AnyCondition without the return inside the loop
AnyLoop_NoReturn(args, i, r, calls) ==
  IF i > Len(args) THEN [v |-> FALSE, calls |-> calls]
  ELSE LET x == CallCondition(args[i], r)
           rest == AnyLoop(args, i + 1, r, calls \o x.calls)
       IN [v |-> x.v \/ rest.v, calls |-> rest.calls]

\* the loop of AnyCondition from argument i on: return true at the first
\* condition that returns true, false after the last
AnyLoop(args, i, r, calls) ==
  IF i > Len(args) THEN [v |-> FALSE, calls |-> calls]
  ELSE LET x == CallCondition(args[i], r)
       IN IF x.v THEN [v |-> TRUE, calls |-> calls \o x.calls]
          ELSE AnyLoop(args, i + 1, r, calls \o x.calls)

\* condition(level, msg, attrs): the result, and the conditions of
\* filters.go that were called, in order
CallCondition(cond, r) ==
  IF cond.kind = "cond"
  THEN [v |-> EvalCondition(cond.c, r.level, r.msg, r.attrs),
        calls |-> <<cond.c>>]
  ELSE IF cond.kind = "all" THEN CombineLoop(cond.args, 1, r, <<>>)
  ELSE AnyLoop(cond.args, 1, r, <<>>)

InitCombine ==
  /\ record \in CombineInputs(PlainConditions)
  /\ emitted = <<>>
  /\ handled = FALSE
  /\ derived = <<>>
  /\ NoSweep
  /\ NoBuilder
  /\ NoGlobal
  /\ NoLocks
  /\ NoSink
  /\ NoLogger

\* the condition is called with the level, message and attributes of a record
Evaluate ==
  /\ ~handled
  /\ handled' = TRUE
  /\ emitted' = CallCondition(record.cond, record)
  /\ UNCHANGED <<record, derived, sweepVars, builderVars, globalVars,
                 lockVars, sinkVars, loggerVars>>

NextCombine == Evaluate

SpecCombine == InitCombine /\ [][NextCombine]_vars

RECURSIVE Holds(_, _)
\* what the claim says a condition returns
Holds(cond, r) ==
  IF cond.kind = "cond" THEN EvalCondition(cond.c, r.level, r.msg, r.attrs)
  ELSE IF cond.kind = "all"
  THEN \A i \in 1..Len(cond.args) : Holds(cond.args[i], r)
  ELSE \E i \in 1..Len(cond.args) : Holds(cond.args[i], r)

\* the arguments of a combinator that decide its result
Deciding(cond, r) ==
  { i \in 1..Len(cond.args) : Holds(cond.args[i], r) = (cond.kind = "any") }

\* the last argument a left-to-right evaluation reaches
LastCalled(cond, r) ==
  IF Deciding(cond, r) = {} THEN Len(cond.args)
  ELSE CHOOSE i \in Deciding(cond, r) : \A j \in Deciding(cond, r) : i <= j

RECURSIVE CalledUpTo(_, _, _)
RECURSIVE Called(_, _)
\* the conditions a left-to-right evaluation that stops at the first
\* deciding result calls, in order
Called(cond, r) ==
  IF cond.kind = "cond" THEN <<cond.c>>
  ELSE CalledUpTo(cond, r, LastCalled(cond, r))

CalledUpTo(cond, r, n) ==
  IF n = 0 THEN <<>>
  ELSE CalledUpTo(cond, r, n - 1) \o Called(cond.args[n], r)

\* C39: condition combinators; CombineConditions(c1..cn) returns true exactly
\* when every ci returns true (true for n = 0), AnyCondition(c1..cn) returns
\* true exactly when at least one ci returns true (false for n = 0), each
\* evaluates its arguments left to right and stops at the first deciding
\* result, and the same holds for combinators nested in combinators.
C39_ConditionCombinators ==
  handled =>
    /\ emitted.v = Holds(record.cond, record)
    /\ emitted.calls = Called(record.cond, record)

\* C39 witness: a CombineConditions whose first argument is an AnyCondition
\* of two conditions that both fail returned false without calling its second
\* argument.
C39_Witness ==
  /\ handled
  /\ record.cond.kind = "all"
  /\ Len(record.cond.args) = 2
  /\ record.cond.args[1].kind = "any"
  /\ Len(record.cond.args[1].args) = 2
  /\ record.cond.args[2].kind = "cond"
  /\ ~emitted.v
  /\ Len(emitted.calls) = 2

(***************************************************************************)
(* The periodic flush and Close, step by step (buffer.go autoFlush, Close) *)
(***************************************************************************)
\* the ticks select may take after bw.stopChan is closed, in one run
MaxLate == 2

\* a sink created with a flush interval; hist also counts the ticks select
\* took after the stop signal (late), and records that the tick in progress
\* was taken before it (pre) and a flush that was in progress when Close
\* closed bw.stopChan (mid)
InitStop ==
  /\ \E sz \in Sizes, fi \in Intervals \ {0}, fl \in Levels :
       newBufferedWriter(sz, fi, fl)
  /\ wpc = [w \in Writers |-> "idle"]
  /\ warg = [w \in Writers |-> <<>>]
  /\ cpc = "idle"
  /\ accepted = <<>>
  /\ last = NoCall
  /\ hist = [writes |-> 0, failed |-> FALSE, closeOK |-> FALSE,
             lateWrite |-> FALSE, closes |-> 0, stops |-> 0,
             late |-> 0, pre |-> FALSE, mid |-> FALSE]
  /\ NoLogger
  /\ NoRecord
  /\ NoSweep
  /\ NoBuilder
  /\ NoGlobal
  /\ NoLocks

\* bufferedWriter.autoFlush: select takes case <-ticker.C; when bw.stopChan
\* is closed too, both cases can proceed and select picks either of them
autoFlushSelect ==
  /\ timerPc = "running"
  /\ stopClosed => hist.late < MaxLate
  /\ timerPc' = "Flush"
  /\ hist' = [hist EXCEPT !.late = IF stopClosed THEN @ + 1 ELSE @,
                          !.pre = ~stopClosed]
  /\ UNCHANGED <<size, flushInterval, flushOnLevel, buffer, dest, stopClosed,
                 once, wpc, warg, cpc, accepted, last>>
  /\ UNCHANGED <<loggerVars, fnVars>>

\* bufferedWriter.autoFlush: bw.Flush() of the tick taken, under bw.mu, then
\* back to the select
autoFlushFlush(ok) ==
  /\ timerPc = "Flush"
  /\ LET r == flushLocked(buffer, dest, ok)
     IN /\ buffer' = r.buffer
        /\ dest' = r.dest
        /\ hist' = [hist EXCEPT !.failed = @ \/ r.err,
                                !.mid = @ \/ (hist.pre /\ stopClosed),
                                !.pre = FALSE]
  /\ timerPc' = "running"
  /\ UNCHANGED <<size, flushInterval, flushOnLevel, stopClosed, once, wpc,
                 warg, cpc, accepted, last>>
  /\ UNCHANGED <<loggerVars, fnVars>>

\* one goroutine writes records that are buffered or flushed at once, one
\* closes, and the goroutine of autoFlush runs
NextStop ==
  \/ \E p \in {q \in Payloads : Len(q) < 3} : WriteCall("w1", p)
  \/ Write("w1", TRUE)
  \/ CloseOnce
  \/ CloseFlush(TRUE)
  \/ autoFlushSelect
  \/ autoFlushFlush(TRUE)
  \/ autoFlushStop

\* The destination returns, so the flush of a tick taken completes; select
\* picks among the cases that can proceed at random, so the stop case, which
\* can proceed at every select once bw.stopChan is closed, is taken at last.
SpecStop ==
  /\ InitStop
  /\ [][NextStop]_vars
  /\ WF_vars(autoFlushFlush(TRUE))
  /\ SF_vars(autoFlushStop)

\* the goroutine of autoFlush exists and has not returned
TimerAlive == timerPc \in {"running", "Flush"}

\* C40: timer task termination; for a sink created with a flush interval,
\* after Close is called the periodic task eventually terminates, also when
\* Close is called while a timer flush is in progress, and select takes at
\* most one further tick after the stop signal.
C40_TimerTermination ==
  /\ (once /\ TimerAlive) ~> (timerPc = "exited")
  /\ [](hist.late <= 1)

\* C40 without the bound on the flushes after the stop signal: after Close is
\* called the periodic task eventually terminates, also when Close is called
\* while a timer flush is in progress; it terminates only by the stop signal,
\* and once terminated it stays so and flushes no more.
C40_TerminatesAfterClose ==
  /\ (once /\ TimerAlive) ~> (timerPc = "exited")
  /\ [](timerPc = "exited" => stopClosed)
  /\ [][timerPc = "exited" =>
          /\ timerPc' = "exited"
          /\ dest' # dest => \/ \E w \in Writers : IsWrite(w)
                             \/ cpc = "Flush" /\ cpc' = "idle"]_vars

\* C40 witness: Close was called while the flush of a tick was in progress,
\* select took two more ticks after the stop signal, the task has terminated
\* and Close has returned
C40_Witness ==
  /\ timerPc = "exited"
  /\ hist.mid
  /\ hist.late = 2
  /\ hist.closes > 0
  /\ last.op = "Close"

====
